---- MODULE Spec2Model ----
(***************************************************************************)
(* Model of the SES account monitor: the Monitor orchestrator              *)
(* (ses_account_monitor/monitor.py), the reputation classifier             *)
(* (services/cloudwatch_service.py), the SES account control wrapper       *)
(* (services/ses_service.py) and the two notification services             *)
(* (services/pager_duty_service.py, services/slack_service.py).            *)
(*                                                                         *)
(* Units: a reputation value or threshold is given in thousandths of a     *)
(* percent (5000 is 5%) and stands for the double nearest to it; a quota   *)
(* utilization is the double the program computes.                         *)
(***************************************************************************)
EXTENDS Integers, Sequences, FiniteSets, TLC

(***************************************************************************)
(* Bounds of the model.                                                    *)
(***************************************************************************)
\* longest queue a service is handed or is left with, where one monitor or one
\* service is used over and over
MaxBacklog == 2
\* longest time series of one metric in the classifier specification
MaxSamples == 2

(***************************************************************************)
(* Program constants.                                                      *)
(***************************************************************************)
SES_SENDING_QUOTA_WARNING_PERCENT == 80
SES_SENDING_QUOTA_CRITICAL_PERCENT == 90

THRESHOLD_CRITICAL == "CRITICAL"
THRESHOLD_OK == "OK"
THRESHOLD_WARNING == "WARNING"

ACTION_ALERT == "alert"
ACTION_ENABLE == "enable"
ACTION_DISABLE == "disable"

SES_MONITOR_STRATEGY_ALERT == "alert"
SES_MONITOR_STRATEGY_MANAGED == "managed"
\* the strategy used when the constructor is given none
SES_MONITOR_STRATEGY == SES_MONITOR_STRATEGY_ALERT

SES_ACCOUNT_SENDING_QUOTA_CLASS_TYPE == "ses_account_sending_quota"
SES_ACCOUNT_REPUTATION_CLASS_TYPE == "ses_account_reputation"

\* config.service_name, the prefix of every dedup key
ServiceName == "undefined-undefined-undefined-ses-account-monitor"

\* reputation thresholds per metric id, in thousandths of a percent
BounceWarning == 5000
BounceCritical == 8000
ComplaintWarning == 10
ComplaintCritical == 40

SES_THRESHOLDS ==
    [CRITICAL |-> [bounce_rate |-> BounceCritical, complaint_rate |-> ComplaintCritical],
     WARNING  |-> [bounce_rate |-> BounceWarning, complaint_rate |-> ComplaintWarning]]

\* Python's None, where a value of the program is a string or None
None == "None"

\* an optional string argument: <<>> is None, <<s>> is the string s
NoArg == <<>>
Arg(s) == <<s>>

\* Python's `arg or default` on an optional string: None and '' are falsy
OrDefault(arg, default) == IF arg = NoArg \/ arg = Arg("") THEN default ELSE arg[1]

(***************************************************************************)
(* Strings: str.upper, str.lower and str.replace on the ASCII letters.     *)
(***************************************************************************)
LowerCase == "abcdefghijklmnopqrstuvwxyz"
UpperCase == "ABCDEFGHIJKLMNOPQRSTUVWXYZ"

\* the character c, a string of length one, with a letter of `from` replaced by
\* the letter of `to` at its place
MapChar(c, from, to) ==
    IF \E i \in 1..26 : SubSeq(from, i, i) = c
    THEN LET i == CHOOSE i \in 1..26 : SubSeq(from, i, i) = c IN SubSeq(to, i, i)
    ELSE c

\* str.upper()
RECURSIVE Upper(_)
Upper(s) ==
    IF s = "" THEN "" ELSE MapChar(SubSeq(s, 1, 1), LowerCase, UpperCase) \o Upper(Tail(s))

\* str.lower()
RECURSIVE Lower(_)
Lower(s) ==
    IF s = "" THEN "" ELSE MapChar(SubSeq(s, 1, 1), UpperCase, LowerCase) \o Lower(Tail(s))

\* str.replace(old, new) for an old of one character
RECURSIVE Replace(_, _, _)
Replace(s, old, new) ==
    IF s = "" THEN ""
    ELSE (IF SubSeq(s, 1, 1) = old THEN new ELSE SubSeq(s, 1, 1)) \o Replace(Tail(s), old, new)

(***************************************************************************)
(* Natural numbers of any size: the sequence of the digits in base 2^15,   *)
(* least significant first, without leading zero digits; <<>> is zero.     *)
(***************************************************************************)
Base == 32768

BigFromInt(n) ==
    IF n = 0 THEN <<>>
    ELSE IF n < Base THEN <<n>>
    ELSE IF n < Base * Base THEN <<n % Base, n \div Base>>
    ELSE <<n % Base, (n \div Base) % Base, n \div (Base * Base)>>

RECURSIVE BigTrim(_)
BigTrim(a) ==
    IF a # <<>> /\ a[Len(a)] = 0 THEN BigTrim(SubSeq(a, 1, Len(a) - 1)) ELSE a

\* a * k + carry, for k in 1..2^16 and carry below k
RECURSIVE BigMulAdd(_, _, _)
BigMulAdd(a, k, carry) ==
    IF a = <<>> THEN BigFromInt(carry)
    ELSE LET p == a[1] * k + carry
         IN <<p % Base>> \o BigMulAdd(Tail(a), k, p \div Base)

\* quotient (with leading zero digits) and remainder of r * Base^Len(a) + a
\* by k in 1..2^16, for r below k
RECURSIVE BigDivMod(_, _, _)
BigDivMod(a, k, r) ==
    IF a = <<>> THEN [q |-> <<>>, r |-> r]
    ELSE LET x == r * Base + a[Len(a)]
             rest == BigDivMod(SubSeq(a, 1, Len(a) - 1), k, x % k)
         IN [q |-> Append(rest.q, x \div k), r |-> rest.r]

RECURSIVE BitLen(_)
BitLen(n) == IF n = 0 THEN 0 ELSE 1 + BitLen(n \div 2)

\* the number of binary digits
BigBits(a) == IF a = <<>> THEN 0 ELSE 15 * (Len(a) - 1) + BitLen(a[Len(a)])

RECURSIVE BigInc(_)
BigInc(a) ==
    IF a = <<>> THEN <<1>>
    ELSE IF a[1] + 1 < Base THEN <<a[1] + 1>> \o Tail(a)
    ELSE <<0>> \o BigInc(Tail(a))

\* a * 2^s, for a above zero
BigShiftLeft(a, s) == [i \in 1..(s \div 15) |-> 0] \o BigMulAdd(a, 2^(s % 15), 0)

\* a \div 2^s, and whether a binary digit that is dropped is set
BigShiftRight(a, s) ==
    LET w == s \div 15
    IN IF w >= Len(a) THEN [q |-> <<>>, sticky |-> a # <<>>]
       ELSE LET d == BigDivMod(SubSeq(a, w + 1, Len(a)), 2^(s % 15), 0)
            IN [q |-> BigTrim(d.q), sticky |-> d.r # 0 \/ \E i \in 1..w : a[i] # 0]

\* (a + f) / 2^s rounded to the nearest integer, a tie to the even one; f is a
\* fraction below one that is zero unless sticky, and s is above zero
RoundHalfEven(a, sticky, s) ==
    LET Odd(x) == x # <<>> /\ x[1] % 2 = 1
        \* h is a \div 2^(s - 1) and q is a \div 2^s
        Round(h, q) == IF Odd(h.q) /\ (h.sticky \/ sticky \/ Odd(q)) THEN BigInc(q) ELSE q
        Halve(h) == Round(h, BigShiftRight(h.q, 1).q)
    IN Halve(BigShiftRight(a, s - 1))

(***************************************************************************)
(* Python floats: IEEE 754 doubles.  A double above zero is m * 2^e with a *)
(* mantissa m of 53 binary digits.  Every operation gives the double that  *)
(* is nearest to the exact result, a tie going to the even mantissa.       *)
(***************************************************************************)
MantissaBits == 53

DoubleZero == [m |-> <<>>, e |-> 0]

\* the double nearest to (a + f) * 2^e; a has more than 53 binary digits
\* whenever sticky
NearestDouble(a, sticky, e) ==
    LET \* a has b binary digits, and m is a rounded to 53 of them
        Rounded(b, m) == IF BigBits(m) > MantissaBits
                         THEN [m |-> BigShiftRight(m, 1).q, e |-> e + b - MantissaBits + 1]
                         ELSE [m |-> m, e |-> e + b - MantissaBits]
        Sized(b) == IF b <= MantissaBits
                    THEN [m |-> BigShiftLeft(a, MantissaBits - b), e |-> e - (MantissaBits - b)]
                    ELSE Rounded(b, RoundHalfEven(a, sticky, b - MantissaBits))
    IN IF a = <<>> THEN DoubleZero ELSE Sized(BigBits(a))

\* long division, k binary digits at a step: q is n * 2^s \div d and r the
\* remainder, until q has 55 binary digits
RECURSIVE LongDivide(_, _, _, _, _)
LongDivide(q, r, d, k, s) ==
    IF BigBits(q) >= MantissaBits + 2 THEN [q |-> q, r |-> r, s |-> s]
    ELSE LET x == r * 2^k
         IN LongDivide(BigMulAdd(q, 2^k, x \div d), x % d, d, k, s + k)

\* n / d of two integers, 0 <= n and 0 < d <= 2^27; the steps of the long
\* division are short enough for the remainder times 2^k to stay below 2^31
DoubleOfRatio(n, d) ==
    IF n = 0 THEN DoubleZero
    ELSE LET k == IF d <= 2^16 THEN 15 ELSE IF d <= 2^23 THEN 8 ELSE 4
             Nearest(l) == NearestDouble(l.q, l.r # 0, 0 - l.s)
         IN Nearest(LongDivide(BigFromInt(n \div d), n % d, d, k, 0))

\* x * k, for an integer k in 1..2^16
DoubleTimes(x, k) ==
    IF x = DoubleZero THEN DoubleZero ELSE NearestDouble(BigMulAdd(x.m, k, 0), FALSE, x.e)

\* x / k, for an integer k in 1..2^16
DoubleOver(x, k) ==
    IF x = DoubleZero THEN DoubleZero
    ELSE LET Nearest(d) == NearestDouble(BigTrim(d.q), d.r # 0, x.e - 30)
         IN Nearest(BigDivMod(BigShiftLeft(x.m, 30), k, 0))

\* -1, 0 or 1 as the double x is below, at or above the integer p >= 0
DoubleCompare(x, p) ==
    IF x = DoubleZero THEN (IF p = 0 THEN 0 ELSE -1)
    ELSE IF x.e >= 0 THEN 1
    ELSE LET \* -1, 0 or 1 as a is below, at or above b
             Compare(a, b) ==
                 IF Len(a) # Len(b) THEN (IF Len(a) > Len(b) THEN 1 ELSE -1)
                 ELSE IF a = b THEN 0
                 ELSE LET i == CHOOSE i \in 1..Len(a) :
                                   a[i] # b[i] /\ \A j \in (i + 1)..Len(a) : a[j] = b[j]
                      IN IF a[i] > b[i] THEN 1 ELSE -1
             \* a digit dropped from x makes it larger than its integer part
             Above(floor, c) == IF c = 0 /\ floor.sticky THEN 1 ELSE c
             Floor(floor) == Above(floor, Compare(floor.q, BigFromInt(p)))
         IN Floor(BigShiftRight(x.m, 0 - x.e))

\* x * k rounded to the nearest integer as '{:.Nf}' rounds the digits it
\* prints: the exact value of the double is rounded, a tie to the even digit;
\* the result is below 2^31
RoundedTimes(x, k) ==
    IF x = DoubleZero THEN 0
    ELSE LET Value(r) == IF r = <<>> THEN 0
                         ELSE IF Len(r) = 1 THEN r[1]
                         ELSE IF Len(r) = 2 THEN r[1] + r[2] * Base
                         ELSE r[1] + r[2] * Base + r[3] * Base * Base
             Scaled(a) == IF x.e >= 0 THEN Value(BigShiftLeft(a, x.e))
                          ELSE Value(RoundHalfEven(a, FALSE, 0 - x.e))
         IN Scaled(BigMulAdd(x.m, k, 0))

\* a raised exception, where an operation returns a value otherwise
Raise(exception) == [raises |-> exception]
IsRaise(r) == "raises" \in DOMAIN r

(***************************************************************************)
(* Formatting.                                                             *)
(***************************************************************************)
\* '{:.0%}'.format(x): x * 100.0 is formed as a double and printed without
\* decimals
Percent0(x) == ToString(RoundedTimes(DoubleTimes(x, 100), 1)) \o "%"

\* '{:.2%}'.format(x): x * 100.0 is formed as a double and printed with two
\* decimals
Percent2(x) ==
    LET Digits(n) ==
            ToString(n \div 100) \o "." \o ToString((n \div 10) % 10) \o ToString(n % 10) \o "%"
    IN Digits(RoundedTimes(DoubleTimes(x, 100), 100))

\* '{:.2%}'.format(current_percent / 100) of a value of v thousandths of a
\* percent, held as the double nearest to v / 1000
FormatPercent2(v) == Percent2(DoubleOver(DoubleOfRatio(v, 1000), 100))

(***************************************************************************)
(* SesService._get_utilization_percentage: (current / total) * 100.0, the  *)
(* double the program holds (29 of 100 is 28.999999999999996).             *)
(***************************************************************************)
GetUtilizationPercentage(current, total) ==
    IF total = 0 THEN Raise("ZeroDivisionError")
    ELSE DoubleTimes(DoubleOfRatio(current, total), 100)

\* utilization_percent >= percent, for an integer percent
UtilizationAtLeast(u, percent) == DoubleCompare(u, percent) >= 0

(***************************************************************************)
(* State.                                                                  *)
(***************************************************************************)
VARIABLES
    ses_management_strategy,    \* Monitor.ses_management_strategy
    monitor_ses_sending_quota,  \* Monitor.monitor_ses_sending_quota
    monitor_ses_reputation,     \* Monitor.monitor_ses_reputation
    notify_config,              \* Monitor._notify_config
    sending_enabled,            \* the account's sending flag, held by SES
    events,                     \* PagerDutyService.events
    messages,                   \* SlackService.messages
    pager_duty_responses,       \* PagerDutyService.responses
    slack_responses,            \* SlackService.responses
    pager_duty_dry_run,         \* PagerDutyService._dry_run
    slack_dry_run,              \* SlackService._dry_run
    slack_channels,             \* SlackService.channels
    last                        \* the last operation: inputs, calls, outcome

vars == <<ses_management_strategy, monitor_ses_sending_quota, monitor_ses_reputation,
          notify_config, sending_enabled, events, messages, pager_duty_responses,
          slack_responses, pager_duty_dry_run, slack_dry_run, slack_channels, last>>

config_vars == <<ses_management_strategy, monitor_ses_sending_quota,
                 monitor_ses_reputation, notify_config, pager_duty_dry_run, slack_dry_run,
                 slack_channels>>

(***************************************************************************)
(* CloudWatch: the two metrics queried, and the classifier.                *)
(***************************************************************************)
MetricIds == <<"bounce_rate", "complaint_rate">>

MetricLabel(id) == IF id = "bounce_rate" THEN "Bounce Rate" ELSE "Complaint Rate"

\* one entry of MetricDataResults
MetricDataResult(id, timestamps, values) ==
    [Id |-> id, Label |-> MetricLabel(id), Timestamps |-> timestamps, Values |-> values]

RECURSIVE MaxOf(_)
MaxOf(seq) ==
    IF Len(seq) = 1 THEN seq[1]
    ELSE LET m == MaxOf(Tail(seq)) IN IF seq[1] >= m THEN seq[1] ELSE m

\* list.index(x): the first position holding x
IndexOf(seq, x) == CHOOSE i \in 1..Len(seq) : seq[i] = x /\ \A j \in 1..(i - 1) : seq[j] # x

\* get_last_metric: <<>> stands for None; Values[last_index] raises when the
\* values are fewer than the timestamps
get_last_metric(metric) ==
    IF metric.Timestamps = <<>> THEN <<>>
    ELSE LET last_ts == MaxOf(metric.Timestamps)
             last_index == IndexOf(metric.Timestamps, last_ts)
         IN IF last_index > Len(metric.Values) THEN Raise("IndexError")
            ELSE LET last_value == metric.Values[last_index]
                 IN <<metric.Label, last_value, last_ts>>

EmptyMetrics == [critical |-> <<>>, ok |-> <<>>, warning |-> <<>>]

\* thresholds[THRESHOLD_CRITICAL][id] and thresholds[THRESHOLD_WARNING][id] are
\* read one after the other: whether a key is missing
MissingThreshold(thresholds, id) ==
    \/ THRESHOLD_CRITICAL \notin DOMAIN thresholds
    \/ id \notin DOMAIN thresholds[THRESHOLD_CRITICAL]
    \/ THRESHOLD_WARNING \notin DOMAIN thresholds
    \/ id \notin DOMAIN thresholds[THRESHOLD_WARNING]

\* variant of ClassifyMetric: the warning threshold is tested before the critical
ClassifyMetricWarningFirst(results, metric, thresholds) ==
    IF IsRaise(results) THEN results
    ELSE IF get_last_metric(metric) = Raise("IndexError") THEN Raise("IndexError")
    ELSE IF MissingThreshold(thresholds, metric.Id) THEN Raise("KeyError")
    ELSE LET last_metric == get_last_metric(metric)
             critical_threshold == thresholds[THRESHOLD_CRITICAL][metric.Id]
             warning_threshold == thresholds[THRESHOLD_WARNING][metric.Id]
         IN IF last_metric # <<>>
            THEN LET label == last_metric[1]
                     current_value == last_metric[2]
                     metric_ts == last_metric[3]
                 IN IF current_value >= warning_threshold
                    THEN [results EXCEPT !.warning =
                             Append(@, <<label, current_value, warning_threshold, metric_ts>>)]
                    ELSE IF current_value >= critical_threshold
                    THEN [results EXCEPT !.critical =
                             Append(@, <<label, current_value, critical_threshold, metric_ts>>)]
                    ELSE [results EXCEPT !.ok =
                             Append(@, <<label, current_value, warning_threshold, metric_ts>>)]
            ELSE results

\* the body of the loop of build_ses_account_reputation_metrics, for one metric:
\* the last sample is taken, which may raise, and the two thresholds are looked
\* up, which raises KeyError for an id the thresholds do not have, before the
\* sample is tested.  Nothing follows an iteration that raised.
ClassifyMetric(results, metric, thresholds) ==
    IF IsRaise(results) THEN results
    ELSE IF get_last_metric(metric) = Raise("IndexError") THEN Raise("IndexError")
    ELSE IF MissingThreshold(thresholds, metric.Id) THEN Raise("KeyError")
    ELSE LET last_metric == get_last_metric(metric)
             critical_threshold == thresholds[THRESHOLD_CRITICAL][metric.Id]
             warning_threshold == thresholds[THRESHOLD_WARNING][metric.Id]
         IN IF last_metric # <<>>
            THEN LET label == last_metric[1]
                     current_value == last_metric[2]
                     metric_ts == last_metric[3]
                 IN IF current_value >= critical_threshold
                    THEN [results EXCEPT !.critical =
                             Append(@, <<label, current_value, critical_threshold, metric_ts>>)]
                    ELSE IF current_value >= warning_threshold
                    THEN [results EXCEPT !.warning =
                             Append(@, <<label, current_value, warning_threshold, metric_ts>>)]
                    ELSE [results EXCEPT !.ok =
                             Append(@, <<label, current_value, warning_threshold, metric_ts>>)]
            ELSE results

RECURSIVE ClassifyFrom(_, _, _, _)
ClassifyFrom(results, metric_data, i, thresholds) ==
    IF i > Len(metric_data) THEN results
    ELSE ClassifyFrom(ClassifyMetric(results, metric_data[i], thresholds),
                      metric_data, i + 1, thresholds)

\* CloudWatchService.build_ses_account_reputation_metrics
build_ses_account_reputation_metrics(metric_data) ==
    ClassifyFrom(EmptyMetrics, metric_data, 1, SES_THRESHOLDS)

(***************************************************************************)
(* PagerDuty payload builders.  Every event has the same fields; a resolve *)
(* event has no payload, which is NoPayload here.  custom_details is the   *)
(* dict the program builds, without the entries that the configuration and *)
(* the clock give (aws_account_name, aws_region, aws_environment, ts,      *)
(* version).                                                               *)
(***************************************************************************)
\* PagerDutyService._get_dedupe_string: '{service}/{target}'
get_dedupe_string(target) == ServiceName \o "/" \o target

\* a dict without entries
NoDetails == <<>>

\* d[k] = v on a dict
DictSet(d, k, v) == [x \in DOMAIN d \cup {k} |-> IF x = k THEN v ELSE d[x]]

NoPayload == [summary |-> None, severity |-> None, class |-> None, custom_details |-> NoDetails]

build_trigger_payload(summary, severity, class_type, event_action, custom_details) ==
    [payload |-> [summary |-> summary, severity |-> severity, class |-> class_type,
                  custom_details |-> custom_details],
     dedup_key |-> get_dedupe_string(class_type),
     event_action |-> event_action]

\* variant of build_resolve_payload: a resolve has a dedup key of its own
build_resolve_payload_own_key(class_type) ==
    [payload |-> NoPayload,
     dedup_key |-> ServiceName \o "/" \o "resolve",
     event_action |-> "resolve"]

build_resolve_payload(class_type) ==
    [payload |-> NoPayload,
     dedup_key |-> get_dedupe_string(class_type),
     event_action |-> "resolve"]

\* utilization is a double, threshold an integer
build_ses_account_quota_custom_details(volume, max_volume, utilization, threshold) ==
    [volume |-> volume,
     max_volume |-> max_volume,
     utilization |-> Percent0(DoubleOver(utilization, 100)),
     threshold |-> Percent0(DoubleOfRatio(threshold, 100))]

\* label.replace(' ', '_').lower()
SnakeCase(label) == Lower(Replace(label, " ", "_"))

\* what one (label, current_percent, threshold_percent, ts) of the metrics puts
\* into custom_details under name, name_threshold and name_timestamp
ReputationDetail(m) ==
    [name |-> SnakeCase(m[1]),
     value |-> FormatPercent2(m[2]),
     threshold |-> FormatPercent2(m[3]),
     timestamp |-> ToString(m[4])]

\* the three assignments of one iteration, in the order of the program; an
\* entry that is there already is overwritten, 'action' and 'action_message'
\* included
SetDetail(details, d) ==
    LET d1 == DictSet(details, d.name, d.value)
        d2 == DictSet(d1, d.name \o "_threshold", d.threshold)
    IN DictSet(d2, d.name \o "_timestamp", d.timestamp)

\* the loop over the metrics, from metric i on
RECURSIVE ReputationDetailsFrom(_, _, _)
ReputationDetailsFrom(details, metrics, i) ==
    IF i > Len(metrics) THEN details
    ELSE ReputationDetailsFrom(SetDetail(details, ReputationDetail(metrics[i])),
                               metrics, i + 1)

\* action is an optional string
build_ses_reputation_custom_details(metrics, action) ==
    LET act == OrDefault(action, ACTION_ALERT)
        d0 == [action |-> act]
        d1 == IF act = ACTION_DISABLE
              THEN DictSet(d0, "action_message", "SES account sending is disabled.")
              ELSE d0
        d2 == IF act = ACTION_ALERT
              THEN DictSet(d1, "action_message", "SES account is in danger of being suspended.")
              ELSE d1
    IN ReputationDetailsFrom(d2, metrics, 1)

build_ses_account_sending_quota_trigger_event_payload(volume, max_volume, utilization_percent, threshold_percent) ==
    build_trigger_payload("SES account sending quota is at capacity.", "critical",
                          SES_ACCOUNT_SENDING_QUOTA_CLASS_TYPE, "trigger",
                          build_ses_account_quota_custom_details(
                              volume, max_volume, utilization_percent, threshold_percent))

build_ses_account_reputation_trigger_event_payload(metrics, action) ==
    build_trigger_payload("SES account reputation is at dangerous levels.", "critical",
                          SES_ACCOUNT_REPUTATION_CLASS_TYPE, "trigger",
                          build_ses_reputation_custom_details(metrics, action))

build_ses_account_sending_quota_resolve_event_payload ==
    build_resolve_payload(SES_ACCOUNT_SENDING_QUOTA_CLASS_TYPE)

build_ses_account_reputation_resolve_event_payload ==
    build_resolve_payload(SES_ACCOUNT_REPUTATION_CLASS_TYPE)

(***************************************************************************)
(* Slack payload builders.  A message is the attachment's colour and       *)
(* fields; a field a message does not have is None.                        *)
(***************************************************************************)
THRESHOLD_COLOR(threshold_name) ==
    CASE threshold_name = THRESHOLD_CRITICAL -> "danger"
      [] threshold_name = THRESHOLD_OK -> "ok"
      [] threshold_name = THRESHOLD_WARNING -> "warning"
      [] OTHER -> ""

\* THRESHOLD_COLOR.get(threshold_name.upper(), '')
get_color(threshold_name) == THRESHOLD_COLOR(Upper(threshold_name))

\* build_ses_reputation_text: the two texts are bound for the three threshold
\* names only, and the return of an unbound local raises
build_ses_reputation_text(threshold_name) ==
    IF Upper(threshold_name) \in {THRESHOLD_CRITICAL, THRESHOLD_WARNING, THRESHOLD_OK}
    THEN [raises |-> None]
    ELSE [raises |-> "UnboundLocalError"]

\* utilization_percent is a double, threshold_percent an integer
build_ses_account_sending_quota_payload(threshold_name, utilization_percent, threshold_percent, volume, max_volume) ==
    [Service |-> "SES Account Sending",
     color |-> get_color(threshold_name),
     Status |-> threshold_name,
     Action |-> None,
     metrics |-> <<>>,
     Utilization |-> Percent2(DoubleOver(utilization_percent, 100)),
     Threshold |-> Percent2(DoubleOfRatio(threshold_percent, 100)),
     Volume |-> volume,
     MaxVolume |-> max_volume]

\* the two fields a metric adds: 'label / Threshold' with 'value / threshold',
\* and 'label Time'
ReputationField(m) ==
    [label |-> m[1], value |-> FormatPercent2(m[2]),
     threshold |-> FormatPercent2(m[3]), time |-> ToString(m[4])]

\* action is an optional string
build_ses_account_reputation_payload(threshold_name, metrics, action) ==
    IF build_ses_reputation_text(threshold_name).raises # None
    THEN build_ses_reputation_text(threshold_name)
    ELSE [Service |-> "SES Account Reputation",
          color |-> get_color(threshold_name),
          Status |-> threshold_name,
          Action |-> Upper(OrDefault(action, ACTION_ALERT)),
          metrics |-> [i \in 1..Len(metrics) |-> ReputationField(metrics[i])],
          Utilization |-> None,
          Threshold |-> None,
          Volume |-> -1,
          MaxVolume |-> -1]


(***************************************************************************)
(* The part of the state one handler works on: the account flag, the two   *)
(* queues, the remote calls made so far and the action reported.           *)
(***************************************************************************)
Call(api, val) == [api |-> api, val |-> val]

\* SesService.is_account_sending_enabled: one remote read, logged
is_account_sending_enabled(st) ==
    [st EXCEPT !.calls = Append(@, Call("get_account_sending_enabled", st.enabled))]

\* SesService.enable_account_sending: one remote write
enable_account_sending(st) ==
    [st EXCEPT !.enabled = TRUE,
               !.calls = Append(@, Call("update_account_sending_enabled", TRUE))]

\* SesService.disable_account_sending: one remote write
\* variant of disable_account_sending: the update is sent but the flag stays
disable_account_sending_flag_kept(st) ==
    [st EXCEPT !.calls = Append(@, Call("update_account_sending_enabled", FALSE))]

disable_account_sending(st) ==
    [st EXCEPT !.enabled = FALSE,
               !.calls = Append(@, Call("update_account_sending_enabled", FALSE))]

\* SesService.toggle_account_sending: one remote read, then the write of the
\* opposite
toggle_account_sending(st) ==
    LET read == is_account_sending_enabled(st)
    IN IF st.enabled THEN disable_account_sending(read) ELSE enable_account_sending(read)

\* PagerDutyService._enqueue_event
enqueue_event(st, event) == [st EXCEPT !.events = Append(@, event)]

\* SlackService._enqueue_message
enqueue_message(st, message) == [st EXCEPT !.messages = Append(@, message)]

(***************************************************************************)
(* Monitor: the three quota handlers.                                      *)
(***************************************************************************)
\* variant of handle_ses_sending_quota_critical: the chat message is queued on
\* the paging flag
handle_ses_sending_quota_critical_one_flag(st, nc, utilization_percent, critical_percent, volume, max_volume) ==
    LET st1 == IF nc.notify_pager_duty_on_ses_sending_quota
               THEN enqueue_event(st, build_ses_account_sending_quota_trigger_event_payload(
                                          volume, max_volume, utilization_percent, critical_percent))
               ELSE st
    IN IF nc.notify_pager_duty_on_ses_sending_quota
       THEN enqueue_message(st1, build_ses_account_sending_quota_payload(
                                     THRESHOLD_CRITICAL, utilization_percent, critical_percent,
                                     volume, max_volume))
       ELSE st1

handle_ses_sending_quota_critical(st, nc, utilization_percent, critical_percent, volume, max_volume) ==
    LET st1 == IF nc.notify_pager_duty_on_ses_sending_quota
               THEN enqueue_event(st, build_ses_account_sending_quota_trigger_event_payload(
                                          volume, max_volume, utilization_percent, critical_percent))
               ELSE st
    IN IF nc.notify_slack_on_ses_sending_quota
       THEN enqueue_message(st1, build_ses_account_sending_quota_payload(
                                     THRESHOLD_CRITICAL, utilization_percent, critical_percent,
                                     volume, max_volume))
       ELSE st1

handle_ses_sending_quota_warning(st, nc, utilization_percent, warning_percent, volume, max_volume) ==
    LET st1 == IF nc.notify_pager_duty_on_ses_sending_quota
               THEN enqueue_event(st, build_ses_account_sending_quota_resolve_event_payload)
               ELSE st
    IN IF nc.notify_slack_on_ses_sending_quota
       THEN enqueue_message(st1, build_ses_account_sending_quota_payload(
                                     THRESHOLD_WARNING, utilization_percent, warning_percent,
                                     volume, max_volume))
       ELSE st1

\* variant of handle_ses_sending_quota_ok: no resolve event is queued
handle_ses_sending_quota_ok_silent(st, nc) == st

handle_ses_sending_quota_ok(st, nc) ==
    IF nc.notify_pager_duty_on_ses_sending_quota
    THEN enqueue_event(st, build_ses_account_sending_quota_resolve_event_payload)
    ELSE st

\* the status handle_ses_sending_quota dispatches on
\* variant of QuotaStatus: the boundaries are exclusive
QuotaStatusExclusive(utilization_percent, warning_percent, critical_percent) ==
    IF DoubleCompare(utilization_percent, critical_percent) > 0 THEN THRESHOLD_CRITICAL
    ELSE IF DoubleCompare(utilization_percent, warning_percent) > 0 THEN THRESHOLD_WARNING
    ELSE THRESHOLD_OK

QuotaStatus(utilization_percent, warning_percent, critical_percent) ==
    IF UtilizationAtLeast(utilization_percent, critical_percent) THEN THRESHOLD_CRITICAL
    ELSE IF UtilizationAtLeast(utilization_percent, warning_percent) THEN THRESHOLD_WARNING
    ELSE THRESHOLD_OK

(***************************************************************************)
(* Monitor: the three reputation handlers.                                 *)
(***************************************************************************)
\* variant of handle_ses_reputation_critical: sending is disabled whatever the
\* strategy
handle_ses_reputation_critical_any_strategy(st, nc, strategy, metrics) ==
    LET danger_metrics == metrics.critical \o metrics.warning
        st1 == [disable_account_sending(st) EXCEPT !.action = ACTION_DISABLE]
        st2 == IF nc.notify_pager_duty_on_ses_reputation
               THEN enqueue_event(st1, build_ses_account_reputation_trigger_event_payload(
                                           danger_metrics, Arg(st1.action)))
               ELSE st1
    IN IF nc.notify_slack_on_ses_reputation
       THEN enqueue_message(st2, build_ses_account_reputation_payload(
                                     THRESHOLD_CRITICAL, danger_metrics, Arg(st1.action)))
       ELSE st2

\* variant of handle_ses_reputation_critical: only the critical metrics are listed
handle_ses_reputation_critical_only(st, nc, strategy, metrics) ==
    LET danger_metrics == metrics.critical
        st1 == IF strategy = SES_MONITOR_STRATEGY_MANAGED
               THEN [disable_account_sending(st) EXCEPT !.action = ACTION_DISABLE]
               ELSE [st EXCEPT !.action = ACTION_ALERT]
        st2 == IF nc.notify_pager_duty_on_ses_reputation
               THEN enqueue_event(st1, build_ses_account_reputation_trigger_event_payload(
                                           danger_metrics, Arg(st1.action)))
               ELSE st1
    IN IF nc.notify_slack_on_ses_reputation
       THEN enqueue_message(st2, build_ses_account_reputation_payload(
                                     THRESHOLD_CRITICAL, danger_metrics, Arg(st1.action)))
       ELSE st2

handle_ses_reputation_critical(st, nc, strategy, metrics) ==
    LET danger_metrics == metrics.critical \o metrics.warning
        st1 == IF strategy = SES_MONITOR_STRATEGY_MANAGED
               THEN [disable_account_sending(st) EXCEPT !.action = ACTION_DISABLE]
               ELSE [st EXCEPT !.action = ACTION_ALERT]
        st2 == IF nc.notify_pager_duty_on_ses_reputation
               THEN enqueue_event(st1, build_ses_account_reputation_trigger_event_payload(
                                           danger_metrics, Arg(st1.action)))
               ELSE st1
    IN IF nc.notify_slack_on_ses_reputation
       THEN enqueue_message(st2, build_ses_account_reputation_payload(
                                     THRESHOLD_CRITICAL, danger_metrics, Arg(st1.action)))
       ELSE st2

\* variant of handle_ses_reputation_warning: the action stays "alert" after an
\* enable
handle_ses_reputation_warning_stale_action(st, nc, strategy, metrics) ==
    LET st0 == [st EXCEPT !.action = ACTION_ALERT]
        st1 == IF strategy = SES_MONITOR_STRATEGY_MANAGED
               THEN LET read == is_account_sending_enabled(st0)
                    IN IF ~st0.enabled THEN enable_account_sending(read) ELSE read
               ELSE st0
    IN IF nc.notify_slack_on_ses_reputation
       THEN enqueue_message(st1, build_ses_account_reputation_payload(
                                     THRESHOLD_WARNING, metrics.warning, Arg(st1.action)))
       ELSE st1

handle_ses_reputation_warning(st, nc, strategy, metrics) ==
    LET st0 == [st EXCEPT !.action = ACTION_ALERT]
        st1 == IF strategy = SES_MONITOR_STRATEGY_MANAGED
               THEN LET read == is_account_sending_enabled(st0)
                    IN IF ~st0.enabled
                       THEN [enable_account_sending(read) EXCEPT !.action = ACTION_ENABLE]
                       ELSE read
               ELSE st0
    IN IF nc.notify_slack_on_ses_reputation
       THEN enqueue_message(st1, build_ses_account_reputation_payload(
                                     THRESHOLD_WARNING, metrics.warning, Arg(st1.action)))
       ELSE st1

\* variant of handle_ses_reputation_ok: the message is queued whether or not
\* sending had to be enabled
handle_ses_reputation_ok_always_message(st, nc, strategy, metrics) ==
    IF strategy = SES_MONITOR_STRATEGY_MANAGED
    THEN LET read == is_account_sending_enabled(st)
             st1 == IF ~st.enabled
                    THEN [enable_account_sending(read) EXCEPT !.action = ACTION_ENABLE]
                    ELSE read
         IN IF nc.notify_slack_on_ses_reputation
            THEN enqueue_message(st1, build_ses_account_reputation_payload(
                                          THRESHOLD_WARNING, metrics.warning,
                                          Arg(ACTION_ENABLE)))
            ELSE st1
    ELSE st

\* variant of handle_ses_reputation_ok: the reputation incident is closed with a
\* paging RESOLVE
handle_ses_reputation_ok_resolves(st, nc, strategy, metrics) ==
    LET st0 == IF nc.notify_pager_duty_on_ses_reputation
               THEN enqueue_event(st, build_ses_account_reputation_resolve_event_payload)
               ELSE st
    IN IF strategy = SES_MONITOR_STRATEGY_MANAGED
       THEN LET read == is_account_sending_enabled(st0)
            IN IF ~st0.enabled
               THEN LET st1 == [enable_account_sending(read) EXCEPT !.action = ACTION_ENABLE]
                    IN IF nc.notify_slack_on_ses_reputation
                       THEN enqueue_message(st1, build_ses_account_reputation_payload(
                                                     THRESHOLD_WARNING, metrics.warning,
                                                     Arg(ACTION_ENABLE)))
                       ELSE st1
               ELSE read
       ELSE st0

handle_ses_reputation_ok(st, nc, strategy, metrics) ==
    IF strategy = SES_MONITOR_STRATEGY_MANAGED
    THEN LET read == is_account_sending_enabled(st)
         IN IF ~st.enabled
            THEN LET st1 == [enable_account_sending(read) EXCEPT !.action = ACTION_ENABLE]
                 IN IF nc.notify_slack_on_ses_reputation
                    THEN enqueue_message(st1, build_ses_account_reputation_payload(
                                                  THRESHOLD_WARNING, metrics.warning,
                                                  Arg(ACTION_ENABLE)))
                    ELSE st1
            ELSE read
    ELSE st

\* variant of ReputationStatus: a metric at its warning threshold makes the cycle
\* CRITICAL
ReputationStatusWarningIsCritical(metrics) ==
    IF metrics.critical # <<>> \/ metrics.warning # <<>> THEN THRESHOLD_CRITICAL
    ELSE IF metrics.ok # <<>> THEN THRESHOLD_OK
    ELSE None

\* variant of ReputationStatus: a cycle without any metric counts as OK
ReputationStatusDefaultOk(metrics) ==
    IF metrics.critical # <<>> THEN THRESHOLD_CRITICAL
    ELSE IF metrics.warning # <<>> THEN THRESHOLD_WARNING
    ELSE THRESHOLD_OK

\* the status handle_ses_reputation dispatches on; None when no bucket has a metric
ReputationStatus(metrics) ==
    IF metrics.critical # <<>> THEN THRESHOLD_CRITICAL
    ELSE IF metrics.warning # <<>> THEN THRESHOLD_WARNING
    ELSE IF metrics.ok # <<>> THEN THRESHOLD_OK
    ELSE None


(***************************************************************************)
(* Inputs.                                                                 *)
(***************************************************************************)
\* what the constructor may be given as ses_management_strategy
StrategyArgs ==
    {NoArg, Arg(""), Arg(SES_MONITOR_STRATEGY_ALERT), Arg(SES_MONITOR_STRATEGY_MANAGED),
     Arg("bogus")}

NotifyConfigs ==
    [notify_pager_duty_on_ses_reputation : BOOLEAN,
     notify_pager_duty_on_ses_sending_quota : BOOLEAN,
     notify_slack_on_ses_reputation : BOOLEAN,
     notify_slack_on_ses_sending_quota : BOOLEAN]

\* get_send_quota responses: 50%, 80%, 90%, 150% and 9/11 = 81.8% of the quota,
\* and a quota of zero
SendQuotas ==
    [SentLast24Hours : {5, 8, 9, 15}, Max24HourSend : {0, 10}]
        \cup {[SentLast24Hours |-> 9, Max24HourSend |-> 11]}

\* values a metric may report: below warning, at warning, between, at critical
MetricValues(id) ==
    IF id = "bounce_rate" THEN {3000, BounceWarning, BounceCritical}
    ELSE {4, ComplaintWarning, ComplaintCritical}

\* the time series of one metric with at most n samples, timestamps in 1..n
RECURSIVE SeriesOfLen(_, _, _)
SeriesOfLen(id, n, k) ==
    IF k = 0 THEN {[Timestamps |-> <<>>, Values |-> <<>>]}
    ELSE {[Timestamps |-> Append(s.Timestamps, t), Values |-> Append(s.Values, v)] :
             s \in SeriesOfLen(id, n, k - 1), t \in 1..n, v \in MetricValues(id)}

Series(id, n) == UNION {SeriesOfLen(id, n, k) : k \in 0..n}

\* MetricDataResults with the given series, in the order of the queries
MetricData(bounce, complaint) ==
    <<MetricDataResult("bounce_rate", bounce.Timestamps, bounce.Values),
      MetricDataResult("complaint_rate", complaint.Timestamps, complaint.Values)>>

\* what get_metric_data returns to the monitor: each metric has one sample or none
FetchedMetricData ==
    {MetricData(b, c) : b \in Series("bounce_rate", 1), c \in Series("complaint_rate", 1)}

(***************************************************************************)
(* The record of the last operation.                                       *)
(***************************************************************************)
NoQuota == [SentLast24Hours |-> -1, Max24HourSend |-> -1]
\* no utilization was computed
NoUtilization == [m |-> <<>>, e |-> -1]

NoOperation ==
    [op |-> "init", status |-> None, result |-> None, calls |-> <<>>, action |-> None,
     send_quota |-> NoQuota, utilization_percent |-> NoUtilization,
     metric_data |-> <<>>, metrics |-> EmptyMetrics, raise_on_errors |-> FALSE,
     dry_run_given |-> FALSE, dry_run |-> FALSE, posts |-> <<>>,
     returned |-> [shape |-> None], raised |-> None, failure |-> <<>>,
     args |-> <<>>]

\* the handler state before an operation starts
Start == [enabled |-> sending_enabled, events |-> events, messages |-> messages,
          calls |-> <<>>, action |-> None]

(***************************************************************************)
(* Monitor.__init__, with the collaborators freshly built.                 *)
(***************************************************************************)
\* config.SLACK_CHANNELS, the channels of a SlackService that was given none: a
\* filter object over the names in the environment.  It has no len().
SLACK_CHANNELS == [type |-> "filter", items |-> <<"#general", "#alerts">>]

\* SlackService.__init__, `channels or self._config.channels`: the list of names
\* given, or when none or an empty one is given the configured channels
SlackServiceChannels(channels_arg) ==
    IF channels_arg = <<>> THEN SLACK_CHANNELS
    ELSE [type |-> "list", items |-> channels_arg]

MonitorInit(strategy_arg, nc, reputation, quota, pd_dry_run, sl_dry_run, channels_arg) ==
    /\ notify_config = nc
    /\ monitor_ses_reputation = reputation
    /\ monitor_ses_sending_quota = quota
    /\ ses_management_strategy = OrDefault(strategy_arg, SES_MONITOR_STRATEGY)
    /\ pager_duty_dry_run = pd_dry_run
    /\ slack_dry_run = sl_dry_run
    /\ slack_channels = SlackServiceChannels(channels_arg)
    /\ events = <<>>
    /\ messages = <<>>
    /\ pager_duty_responses = <<>>
    /\ slack_responses = <<>>

Init ==
    /\ \E strategy_arg \in StrategyArgs, nc \in NotifyConfigs,
          reputation \in BOOLEAN, quota \in BOOLEAN :
          MonitorInit(strategy_arg, nc, reputation, quota, FALSE, FALSE, <<>>)
    /\ sending_enabled \in BOOLEAN
    /\ last = NoOperation

\* lambda_handler builds a monitor and calls handle_ses_sending_quota,
\* handle_ses_reputation and send_notifications(raise_on_errors=True), once each
\* and in this order, without catching anything: the invocation is over when
\* the send is over or a call has raised.  last.op is the call just made.
Sent == last.op = "send_notifications"
Raised == last.result \in {"ZeroDivisionError", "IndexError", "KeyError", "ConnectionError",
                         "ValueError", "TypeError", "NotificationFailure"}

\* variant of ValidStrategy: the strategy is not checked
ValidStrategyUnchecked == TRUE

ValidStrategy ==
    ~(ses_management_strategy # SES_MONITOR_STRATEGY_MANAGED
      /\ ses_management_strategy # SES_MONITOR_STRATEGY_ALERT)

(***************************************************************************)
(* Monitor.handle_ses_sending_quota                                        *)
(***************************************************************************)
\* what the handler leaves behind, given the handler state it ends in
Finish(st, record) ==
    /\ sending_enabled' = st.enabled
    /\ events' = st.events
    /\ messages' = st.messages
    /\ last' = [record EXCEPT !.calls = st.calls, !.action = st.action]
    /\ UNCHANGED <<config_vars, pager_duty_responses, slack_responses>>

\* the handler, with the quota SES answers with drawn from quotas
HandleSesSendingQuota(quotas) ==
    /\ IF ~monitor_ses_sending_quota \/ ~ValidStrategy
       THEN Finish(Start, [NoOperation EXCEPT !.op = "handle_ses_sending_quota",
                                              !.result = "{}"])
       ELSE \E stats \in quotas :
              LET st == [Start EXCEPT !.calls = Append(@, Call("get_send_quota", TRUE))]
                  volume == stats.SentLast24Hours
                  max_volume == stats.Max24HourSend
                  record == [NoOperation EXCEPT !.op = "handle_ses_sending_quota",
                                                !.send_quota = stats]
                  usage == GetUtilizationPercentage(volume, max_volume)
              IN IF IsRaise(usage)
                 THEN Finish(st, [record EXCEPT !.result = usage.raises])
                 ELSE LET utilization_percent == usage
                          critical_percent == SES_SENDING_QUOTA_CRITICAL_PERCENT
                          warning_percent == SES_SENDING_QUOTA_WARNING_PERCENT
                          status == QuotaStatus(utilization_percent, warning_percent,
                                                critical_percent)
                          st1 == CASE status = THRESHOLD_CRITICAL ->
                                        handle_ses_sending_quota_critical(
                                            st, notify_config, utilization_percent,
                                            critical_percent, volume, max_volume)
                                   [] status = THRESHOLD_WARNING ->
                                        handle_ses_sending_quota_warning(
                                            st, notify_config, utilization_percent,
                                            warning_percent, volume, max_volume)
                                   [] OTHER ->
                                        handle_ses_sending_quota_ok(st, notify_config)
                      IN Finish(st1, [record EXCEPT
                                        !.status = status,
                                        !.utilization_percent = utilization_percent,
                                        !.result = "pending"])

handle_ses_sending_quota ==
    /\ last.op = "init"
    /\ HandleSesSendingQuota(SendQuotas)

(***************************************************************************)
(* Monitor.handle_ses_reputation                                           *)
(***************************************************************************)
\* the handler, with the metric data CloudWatch answers with drawn from fetched
HandleSesReputation(fetched) ==
    /\ IF ~monitor_ses_reputation \/ ~ValidStrategy
       THEN Finish(Start, [NoOperation EXCEPT !.op = "handle_ses_reputation",
                                              !.result = "{}"])
       ELSE \E metric_data \in fetched :
              LET st == [Start EXCEPT !.calls = Append(@, Call("get_metric_data", TRUE))]
                  metrics == build_ses_account_reputation_metrics(metric_data)
                  status == IF IsRaise(metrics) THEN None ELSE ReputationStatus(metrics)
                  st1 == CASE status = THRESHOLD_CRITICAL ->
                                handle_ses_reputation_critical(
                                    st, notify_config, ses_management_strategy, metrics)
                           [] status = THRESHOLD_WARNING ->
                                handle_ses_reputation_warning(
                                    st, notify_config, ses_management_strategy, metrics)
                           [] status = THRESHOLD_OK ->
                                handle_ses_reputation_ok(
                                    st, notify_config, ses_management_strategy, metrics)
                           [] OTHER -> st
              IN Finish(st1, [NoOperation EXCEPT
                                !.op = "handle_ses_reputation",
                                !.status = status,
                                !.metric_data = metric_data,
                                !.metrics = metrics,
                                !.result = IF IsRaise(metrics) THEN metrics.raises
                                           ELSE "pending"])

handle_ses_reputation ==
    /\ last.op = "handle_ses_sending_quota"
    /\ ~Raised
    /\ HandleSesReputation(FetchedMetricData)

(***************************************************************************)
(* Delivery.                                                               *)
(***************************************************************************)
\* the response object an outcome holds
Response(status_code) == [status_code |-> status_code]

\* '{action}::{name}' and 'debug::{action}::{name}'
EventId(event) == event.event_action \o "::" \o event.dedup_key
DebugEventId(event) == "debug::" \o event.event_action \o "::" \o event.dedup_key

\* PagerDutyService.send_notifications: the responses it leaves, the queue drained;
\* statuses[i] is the transport's answer to the i-th post
pager_duty_send_notifications(evs, dry_run, self_dry_run, statuses) ==
    IF dry_run \/ self_dry_run
    THEN [i \in 1..Len(evs) |-> <<DebugEventId(evs[i]), evs[i]>>]
    ELSE [i \in 1..Len(evs) |-> <<EventId(evs[i]), Response(statuses[i])>>]

\* SlackService._build_message_with_channels
build_message_with_channels(base_payload, channels) ==
    [c \in 1..Len(channels) |-> [channel |-> channels[c], message |-> base_payload]]

RECURSIVE FlattenFrom(_, _)
FlattenFrom(seqs, i) ==
    IF i > Len(seqs) THEN <<>> ELSE seqs[i] \o FlattenFrom(seqs, i + 1)

\* SlackService.send_notifications on a list of channels: the responses it
\* leaves, the queue drained; statuses[(m - 1) * |channels| + c] answers message
\* m posted for channel c
slack_send_notifications(msgs, channels, dry_run, self_dry_run, statuses) ==
    IF dry_run \/ self_dry_run
    THEN FlattenFrom([m \in 1..Len(msgs) |-> build_message_with_channels(msgs[m], channels)], 1)
    ELSE FlattenFrom([m \in 1..Len(msgs) |->
                        [c \in 1..Len(channels) |->
                            <<channels[c], Response(statuses[(m - 1) * Len(channels) + c])>>]], 1)

\* the test of _handle_notification_responses on one response
IsFailure(r) == r.status_code >= 400 /\ r.status_code <= 500

\* Monitor._handle_notification_responses: the failure raised, or None
handle_notification_responses(pd_responses, pd_dry_run, sl_responses, sl_dry_run) ==
    LET pd_bad == IF pd_dry_run THEN {}
                  ELSE {i \in 1..Len(pd_responses) : IsFailure(pd_responses[i][2])}
        sl_bad == IF sl_dry_run THEN {}
                  ELSE {i \in 1..Len(sl_responses) : IsFailure(sl_responses[i][2])}
        first(S) == CHOOSE i \in S : \A j \in S : i <= j
    IN IF pd_bad # {} THEN <<"NotificationFailure", "PagerDuty", pd_responses[first(pd_bad)][1]>>
       ELSE IF sl_bad # {} THEN <<"NotificationFailure", "Slack", sl_responses[first(sl_bad)][1]>>
       ELSE <<>>

\* what requests.post does with one call: it returns a response with a status
\* code and a body that is JSON or is not, or it raises
Answer(status_code, json) ==
    [answered |-> TRUE, status_code |-> status_code, json |-> json]
ConnectionError == [answered |-> FALSE, status_code |-> 0, json |-> FALSE]

\* HttpClient.post_json: requests.post raises, or response.json(), evaluated for
\* the log, raises ValueError on a body that is not JSON, or the response is
\* returned
post_json(answer) ==
    IF ~answer.answered THEN Raise("ConnectionError")
    ELSE IF ~answer.json THEN Raise("ValueError")
    ELSE Response(answer.status_code)

\* the answers other than 200 OK with a JSON body
Faults ==
    {Answer(399, TRUE), Answer(400, TRUE), Answer(404, TRUE), Answer(500, TRUE),
     Answer(501, TRUE), Answer(200, FALSE), Answer(404, FALSE), ConnectionError}

\* the answers to n calls in order: all 200 with a JSON body but for at most two
\* of them
Answers(n) ==
    {[k \in 1..n |-> IF k = i THEN a ELSE IF k = j THEN b ELSE Answer(200, TRUE)] :
        i \in 0..n, j \in 0..n, a \in Faults, b \in Faults}

\* the position of the first call in which post_json raises, 0 when none does
FirstRaise(answers, n) ==
    IF \E k \in 1..n : IsRaise(post_json(answers[k]))
    THEN CHOOSE k \in 1..n : /\ IsRaise(post_json(answers[k]))
                             /\ \A h \in 1..(k - 1) : ~IsRaise(post_json(answers[h]))
    ELSE 0

\* a call of HttpClient.post_json as the transport sees it
Post(backend, payload) == [backend |-> backend, payload |-> payload]

\* the value a send returns: the tuple (send_status, responses), or a bare list
Pair(send_status, responses) ==
    [shape |-> "pair", send_status |-> send_status, responses |-> responses]
List(responses) == [shape |-> "list", responses |-> responses]
NoReturn == [shape |-> None]

\* variant of PagerDutySend: an event whose call failed goes back to the head of
\* the queue
PagerDutySendRequeues(evs, given, dry_run, self_dry_run, answers) ==
    LET arg == given /\ dry_run
        send_status == ~arg
    IN IF arg \/ self_dry_run
       THEN LET responses == pager_duty_send_notifications(evs, arg, self_dry_run, <<>>)
            IN [queue |-> <<>>, responses |-> responses, posts |-> <<>>,
                returned |-> Pair(send_status, responses), raised |-> None]
       ELSE LET k == FirstRaise(answers, Len(evs))
                answered == IF k = 0 THEN evs ELSE SubSeq(evs, 1, k - 1)
                responses == pager_duty_send_notifications(
                                 answered, FALSE, FALSE,
                                 [i \in 1..Len(answered) |-> answers[i].status_code])
            IN IF k = 0
               THEN [queue |-> <<>>, responses |-> responses,
                     posts |-> [i \in 1..Len(evs) |-> Post("pager_duty", evs[i])],
                     returned |-> Pair(send_status, responses), raised |-> None]
               ELSE [queue |-> SubSeq(evs, k, Len(evs)), responses |-> responses,
                     posts |-> [i \in 1..k |-> Post("pager_duty", evs[i])],
                     returned |-> NoReturn, raised |-> post_json(answers[k]).raises]

\* PagerDutyService.send_notifications(dry_run) with everything it leaves behind:
\* the queue, self.responses, the calls made, the return value, the exception.
\* given says whether the argument was passed; when it is not, dry_run is False.
\* An event is popped before its call, and its outcome is appended after
\* post_json has returned: a call in which post_json raises ends the send with
\* the event off the queue, no outcome for it, and the events behind it queued.
PagerDutySend(evs, given, dry_run, self_dry_run, answers) ==
    LET arg == given /\ dry_run
        send_status == ~arg
    IN IF arg \/ self_dry_run
       THEN LET responses == pager_duty_send_notifications(evs, arg, self_dry_run, <<>>)
            IN [queue |-> <<>>, responses |-> responses, posts |-> <<>>,
                returned |-> Pair(send_status, responses), raised |-> None]
       ELSE LET k == FirstRaise(answers, Len(evs))
                answered == IF k = 0 THEN evs ELSE SubSeq(evs, 1, k - 1)
                responses == pager_duty_send_notifications(
                                 answered, FALSE, FALSE,
                                 [i \in 1..Len(answered) |-> answers[i].status_code])
            IN IF k = 0
               THEN [queue |-> <<>>, responses |-> responses,
                     posts |-> [i \in 1..Len(evs) |-> Post("pager_duty", evs[i])],
                     returned |-> Pair(send_status, responses), raised |-> None]
               ELSE [queue |-> SubSeq(evs, k + 1, Len(evs)), responses |-> responses,
                     posts |-> [i \in 1..k |-> Post("pager_duty", evs[i])],
                     returned |-> NoReturn, raised |-> post_json(answers[k]).raises]

\* SlackService.send_notifications(dry_run), likewise; responses is
\* self.responses before the call.  The first statement takes len(self.channels):
\* on channels that are not a list it raises TypeError before self.responses is
\* reset, before the dry-run test and before anything is popped.  The live loop
\* posts the queued message itself for every channel; call
\* (m - 1) * |channels| + c is the one for message m and channel c.
SlackSend(msgs, channels, responses, given, dry_run, self_dry_run, answers) ==
    IF channels.type # "list"
    THEN [queue |-> msgs, responses |-> responses, posts |-> <<>>,
          returned |-> NoReturn, raised |-> "TypeError"]
    ELSE LET arg == given /\ dry_run
             send_status == ~arg
             n == Len(channels.items)
         IN IF arg \/ self_dry_run
            THEN LET echoed == slack_send_notifications(msgs, channels.items, arg,
                                                        self_dry_run, <<>>)
                 IN [queue |-> <<>>, responses |-> echoed, posts |-> <<>>,
                     returned |-> List(echoed), raised |-> None]
            ELSE LET k == FirstRaise(answers, Len(msgs) * n)
                     calls == IF k = 0 THEN Len(msgs) * n ELSE k
                     popped == IF k = 0 THEN Len(msgs) ELSE (k + n - 1) \div n
                     all == slack_send_notifications(
                                msgs, channels.items, FALSE, FALSE,
                                [i \in 1..(Len(msgs) * n) |-> answers[i].status_code])
                     recorded == IF k = 0 THEN all ELSE SubSeq(all, 1, k - 1)
                 IN [queue |-> SubSeq(msgs, popped + 1, Len(msgs)),
                     responses |-> recorded,
                     posts |-> [i \in 1..calls |-> Post("slack", msgs[((i - 1) \div n) + 1])],
                     returned |-> IF k = 0 THEN Pair(send_status, recorded) ELSE NoReturn,
                     raised |-> IF k = 0 THEN None ELSE post_json(answers[k]).raises]

(***************************************************************************)
(* Monitor.send_notifications                                              *)
(***************************************************************************)
\* the calls one send of the monitor makes at most: one per event, and one per
\* message and channel of a list of channels
MaxCalls ==
    Len(events) + (IF slack_channels.type = "list"
                   THEN Len(messages) * Len(slack_channels.items) ELSE 0)

\* the body of Monitor.send_notifications; answers[k] is what the transport does
\* with the k-th call the monitor's services make.  An exception of the
\* PagerDuty send ends it before the Slack send, an exception of the Slack send
\* before the responses are reviewed.
MonitorSend(raise_on_errors, answers) ==
    \E pd \in {PagerDutySend(events, FALSE, FALSE, pager_duty_dry_run, answers)} :
    \E sl \in {SlackSend(messages, slack_channels, slack_responses, FALSE, FALSE,
                         slack_dry_run,
                         [k \in 1..(MaxCalls - Len(events)) |->
                             answers[Len(pd.posts) + k]])} :
    \E failure \in {IF raise_on_errors /\ pd.raised = None /\ sl.raised = None
                    THEN handle_notification_responses(pd.responses, pager_duty_dry_run,
                                                       sl.responses, slack_dry_run)
                    ELSE <<>>} :
       LET record == [NoOperation EXCEPT !.op = "send_notifications",
                                         !.raise_on_errors = raise_on_errors]
       IN /\ events' = pd.queue
          /\ pager_duty_responses' = pd.responses
          /\ IF pd.raised # None
             THEN /\ UNCHANGED <<messages, slack_responses>>
                  /\ last' = [record EXCEPT !.posts = pd.posts, !.raised = pd.raised,
                                            !.result = pd.raised]
             ELSE /\ messages' = sl.queue
                  /\ slack_responses' = sl.responses
                  /\ last' = [record EXCEPT
                                !.posts = pd.posts \o sl.posts,
                                !.failure = failure,
                                !.raised = IF sl.raised # None THEN sl.raised
                                           ELSE IF failure # <<>> THEN "NotificationFailure"
                                           ELSE None,
                                !.result = IF sl.raised # None THEN sl.raised
                                           ELSE IF failure # <<>> THEN "NotificationFailure"
                                           ELSE "responses",
                                !.returned =
                                    IF sl.raised # None \/ failure # <<>> THEN NoReturn
                                    ELSE [shape |-> "dict", slack |-> sl.responses,
                                          pager_duty |-> pd.responses]]
          /\ UNCHANGED <<config_vars, sending_enabled>>

\* the last call of lambda_handler, against transports that may answer
\* anything or fail to answer.  The monitor of lambda_handler has the Slack
\* service Monitor.__init__ builds, whose channels are config.SLACK_CHANNELS: the
\* send ends in the exception of a PagerDuty call or in the TypeError of the
\* Slack send, the events posted and the messages still queued.  It is not
\* reached when handle_ses_reputation has raised: the invocation is over.
send_notifications ==
    /\ last.op = "handle_ses_reputation"
    /\ ~Raised
    /\ \E answers \in Answers(MaxCalls) : MonitorSend(TRUE, answers)

(***************************************************************************)
(* lambda_handler: the next invocation builds a new monitor from the same  *)
(* configuration; the account's flag is SES's and stays as it is.          *)
(***************************************************************************)
lambda_handler ==
    /\ Sent \/ Raised
    /\ events' = <<>>
    /\ messages' = <<>>
    /\ pager_duty_responses' = <<>>
    /\ slack_responses' = <<>>
    /\ last' = NoOperation
    /\ UNCHANGED <<config_vars, sending_enabled>>

Next ==
    \/ handle_ses_sending_quota
    \/ handle_ses_reputation
    \/ send_notifications
    \/ lambda_handler

Spec == Init /\ [][Next]_vars

(***************************************************************************)
(* The classifier on its own: every time series of up to MaxSamples        *)
(* samples for one metric, next to a series of at most one sample for the  *)
(* other.                                                                  *)
(***************************************************************************)
ClassifierInputs ==
    {MetricData(b, c) : b \in Series("bounce_rate", MaxSamples),
                        c \in Series("complaint_rate", 1)}
    \cup {MetricData(b, c) : b \in Series("bounce_rate", 1),
                             c \in Series("complaint_rate", MaxSamples)}

InitClassifier ==
    /\ MonitorInit(NoArg, [f \in DOMAIN CHOOSE nc \in NotifyConfigs : TRUE |-> FALSE],
                   TRUE, TRUE, FALSE, FALSE, <<>>)
    /\ sending_enabled = TRUE
    /\ \E metric_data \in ClassifierInputs :
          last = [NoOperation EXCEPT !.metric_data = metric_data]

classify ==
    /\ last.op = "init"
    /\ last' = [last EXCEPT
                  !.op = "build_ses_account_reputation_metrics",
                  !.metrics = build_ses_account_reputation_metrics(last.metric_data)]
    /\ UNCHANGED <<config_vars, sending_enabled, events, messages,
                   pager_duty_responses, slack_responses>>

NextClassifier == classify

SpecClassifier == InitClassifier /\ [][NextClassifier]_vars

(***************************************************************************)
(* Delivery on its own: the two transports and the monitor's send, started *)
(* on queues the handlers have filled, with every dry-run configuration,   *)
(* with the configured channels and with a list of channels, with and      *)
(* without the explicit dry_run argument, and with transports that answer  *)
(* any status, answer with a body that is not JSON, or fail to answer.     *)
(***************************************************************************)
\* events and messages as the quota handlers queue them
QueuedEvents ==
    {build_ses_account_sending_quota_trigger_event_payload(
         9, 10, GetUtilizationPercentage(9, 10), SES_SENDING_QUOTA_CRITICAL_PERCENT),
     build_ses_account_sending_quota_resolve_event_payload}
QueuedMessages ==
    {build_ses_account_sending_quota_payload(
         THRESHOLD_CRITICAL, GetUtilizationPercentage(9, 10),
         SES_SENDING_QUOTA_CRITICAL_PERCENT, 9, 10),
     build_ses_account_sending_quota_payload(
         THRESHOLD_WARNING, GetUtilizationPercentage(8, 10),
         SES_SENDING_QUOTA_WARNING_PERCENT, 8, 10)}

SeqsUpTo(S, n) == UNION {[1..k -> S] : k \in 0..n}

InitDelivery ==
    /\ \E pd_dry_run \in BOOLEAN, sl_dry_run \in BOOLEAN, channels_arg \in {<<>>, <<"#general", "#alerts">>} :
          /\ ses_management_strategy = SES_MONITOR_STRATEGY
          /\ monitor_ses_reputation = TRUE
          /\ monitor_ses_sending_quota = TRUE
          /\ notify_config = [f \in DOMAIN CHOOSE nc \in NotifyConfigs : TRUE |-> TRUE]
          /\ pager_duty_dry_run = pd_dry_run
          /\ slack_dry_run = sl_dry_run
          /\ slack_channels = SlackServiceChannels(channels_arg)
    /\ \E evs \in SeqsUpTo(QueuedEvents, MaxBacklog), msgs \in SeqsUpTo(QueuedMessages, MaxBacklog) :
          /\ Len(evs) + Len(msgs) <= MaxBacklog
          /\ events = evs
          /\ messages = msgs
    /\ pager_duty_responses = <<>>
    /\ slack_responses = <<>>
    /\ sending_enabled = TRUE
    /\ last = NoOperation

\* a send is made on the queues as filled, or after a send that an exception
\* cut short
Deliverable == last.op = "init" \/ last.raised \in {"ConnectionError", "ValueError", "TypeError"}

\* PagerDutyService.send_notifications called on the service itself
pager_duty_service_send_notifications ==
    /\ Deliverable
    /\ \E given \in BOOLEAN, dry_run \in BOOLEAN, answers \in Answers(Len(events)) :
       \E sent \in {PagerDutySend(events, given, given /\ dry_run, pager_duty_dry_run, answers)} :
          /\ events' = sent.queue
          /\ pager_duty_responses' = sent.responses
          /\ last' = [NoOperation EXCEPT
                        !.op = "pager_duty_service.send_notifications",
                        !.dry_run_given = given, !.dry_run = given /\ dry_run,
                        !.posts = sent.posts, !.returned = sent.returned,
                        !.raised = sent.raised,
                        !.result = IF sent.raised # None THEN sent.raised ELSE "responses"]
          /\ UNCHANGED <<config_vars, sending_enabled, messages, slack_responses>>

\* SlackService.send_notifications called on the service itself
slack_service_send_notifications ==
    /\ Deliverable
    /\ \E given \in BOOLEAN, dry_run \in BOOLEAN,
       answers \in Answers(MaxCalls - Len(events)) :
       \E sent \in {SlackSend(messages, slack_channels, slack_responses, given,
                                given /\ dry_run, slack_dry_run, answers)} :
          /\ messages' = sent.queue
          /\ slack_responses' = sent.responses
          /\ last' = [NoOperation EXCEPT
                        !.op = "slack_service.send_notifications",
                        !.dry_run_given = given, !.dry_run = given /\ dry_run,
                        !.posts = sent.posts, !.returned = sent.returned,
                        !.raised = sent.raised,
                        !.result = IF sent.raised # None THEN sent.raised ELSE "responses"]
          /\ UNCHANGED <<config_vars, sending_enabled, events, pager_duty_responses>>

\* Monitor.send_notifications against transports that may answer anything
monitor_send_notifications ==
    /\ Deliverable
    /\ \E raise_on_errors \in BOOLEAN, answers \in Answers(MaxCalls) :
          MonitorSend(raise_on_errors, answers)

NextDelivery ==
    \/ pager_duty_service_send_notifications
    \/ slack_service_send_notifications
    \/ monitor_send_notifications

SpecDelivery == InitDelivery /\ [][NextDelivery]_vars

(***************************************************************************)
(* One monitor kept across sends: checks and sends in any order on the     *)
(* same object, all notifications on, against transports that may answer   *)
(* anything or fail to answer.                                             *)
(***************************************************************************)
\* get_send_quota responses: 90% and 50% of the quota
CycleQuotas ==
    {[SentLast24Hours |-> 9, Max24HourSend |-> 10],
     [SentLast24Hours |-> 5, Max24HourSend |-> 10]}

\* get_metric_data responses: the bounce rate at its critical threshold, at its
\* warning threshold, or below both; no complaint rate sample
CycleMetricData ==
    {MetricData([Timestamps |-> <<1>>, Values |-> <<v>>], [Timestamps |-> <<>>, Values |-> <<>>]) :
        v \in MetricValues("bounce_rate")}

InitCycles ==
    /\ \E strategy_arg \in {SES_MONITOR_STRATEGY_ALERT, SES_MONITOR_STRATEGY_MANAGED},
          channels_arg \in {<<>>, <<"#general", "#alerts">>} :
          MonitorInit(Arg(strategy_arg),
                      [f \in DOMAIN CHOOSE nc \in NotifyConfigs : TRUE |-> TRUE],
                      TRUE, TRUE, FALSE, FALSE, channels_arg)
    /\ sending_enabled \in BOOLEAN
    /\ last = NoOperation

\* Monitor.handle_ses_sending_quota on a monitor that may have sent before
monitor_handle_ses_sending_quota ==
    /\ Len(events) < MaxBacklog
    /\ Len(messages) < MaxBacklog
    /\ HandleSesSendingQuota(CycleQuotas)

\* Monitor.handle_ses_reputation on a monitor that may have sent before
monitor_handle_ses_reputation ==
    /\ Len(events) < MaxBacklog
    /\ Len(messages) < MaxBacklog
    /\ HandleSesReputation(CycleMetricData)

\* Monitor.send_notifications on a monitor that may have sent before: the first
\* call is answered 200 or 404 with a JSON body, or 200 with a body that is not
\* JSON, or not answered; the calls after it are answered 200 with a JSON body
monitor_send_pending_notifications ==
    \E raise_on_errors \in BOOLEAN,
       answers \in {[k \in 1..MaxCalls |-> IF k = 1 THEN a ELSE Answer(200, TRUE)] :
                      a \in {Answer(200, TRUE), Answer(404, TRUE), Answer(200, FALSE),
                             ConnectionError}} :
       MonitorSend(raise_on_errors, answers)

NextCycles ==
    \/ monitor_handle_ses_sending_quota
    \/ monitor_handle_ses_reputation
    \/ monitor_send_pending_notifications

SpecCycles == InitCycles /\ [][NextCycles]_vars

(***************************************************************************)
(* The PagerDutyService on its own: its four enqueue_* methods called with  *)
(* any arguments, the metrics list of a reputation trigger included.       *)
(***************************************************************************)
\* (label, value, threshold, timestamp) tuples a caller may pass
EventMetrics ==
    {<<"Bounce Rate", 9000, BounceCritical, 1>>, <<"Complaint Rate", 20, ComplaintWarning, 1>>}
EventMetricLists == {<<>>} \cup {<<m>> : m \in EventMetrics}
                    \cup {l \in [1..2 -> EventMetrics] : l[1] # l[2]}
EventActions == {NoArg, Arg(""), Arg(ACTION_ALERT), Arg(ACTION_DISABLE)}
EventVolumes == {9, 10}

InitBuilders ==
    /\ MonitorInit(NoArg, [f \in DOMAIN CHOOSE nc \in NotifyConfigs : TRUE |-> TRUE],
                   TRUE, TRUE, FALSE, FALSE, <<>>)
    /\ sending_enabled = TRUE
    /\ last = NoOperation

\* PagerDutyService._enqueue_event as a step of the service, called by `op`
EnqueueEvent(op, args, event) ==
    /\ events' = Append(events, event)
    /\ last' = [NoOperation EXCEPT !.op = op, !.args = args, !.result = "enqueued"]
    /\ UNCHANGED <<config_vars, sending_enabled, messages, pager_duty_responses,
                   slack_responses>>

enqueue_ses_account_sending_quota_trigger_event ==
    /\ Len(events) < MaxBacklog
    /\ \E volume \in EventVolumes :
          EnqueueEvent("enqueue_ses_account_sending_quota_trigger_event", <<volume>>,
                       build_ses_account_sending_quota_trigger_event_payload(
                           volume, 10, GetUtilizationPercentage(volume, 10),
                           SES_SENDING_QUOTA_CRITICAL_PERCENT))

enqueue_ses_account_sending_quota_resolve_event ==
    /\ Len(events) < MaxBacklog
    /\ EnqueueEvent("enqueue_ses_account_sending_quota_resolve_event", <<>>,
                    build_ses_account_sending_quota_resolve_event_payload)

enqueue_ses_account_reputation_trigger_event ==
    /\ Len(events) < MaxBacklog
    /\ \E metrics \in EventMetricLists, action \in EventActions :
          EnqueueEvent("enqueue_ses_account_reputation_trigger_event", <<metrics, action>>,
                       build_ses_account_reputation_trigger_event_payload(metrics, action))

enqueue_ses_account_reputation_resolve_event ==
    /\ Len(events) < MaxBacklog
    /\ EnqueueEvent("enqueue_ses_account_reputation_resolve_event", <<>>,
                    build_ses_account_reputation_resolve_event_payload)

NextBuilders ==
    \/ enqueue_ses_account_sending_quota_trigger_event
    \/ enqueue_ses_account_sending_quota_resolve_event
    \/ enqueue_ses_account_reputation_trigger_event
    \/ enqueue_ses_account_reputation_resolve_event

SpecBuilders == InitBuilders /\ [][NextBuilders]_vars

(***************************************************************************)
(* The SesService on its own: its four account-control methods, called in  *)
(* any order.                                                              *)
(***************************************************************************)
InitSesService ==
    /\ MonitorInit(NoArg, [f \in DOMAIN CHOOSE nc \in NotifyConfigs : TRUE |-> TRUE],
                   TRUE, TRUE, FALSE, FALSE, <<>>)
    /\ sending_enabled \in BOOLEAN
    /\ last = NoOperation

\* what a method of the service leaves behind, and the flag it returns
SesServiceCall(op, st, flag) ==
    /\ sending_enabled' = st.enabled
    /\ last' = [NoOperation EXCEPT !.op = op, !.calls = st.calls,
                                   !.returned = [shape |-> "bool", value |-> flag]]
    /\ UNCHANGED <<config_vars, events, messages, pager_duty_responses, slack_responses>>

ses_service_is_account_sending_enabled ==
    \E st \in {is_account_sending_enabled(Start)} :
       SesServiceCall("is_account_sending_enabled", st, sending_enabled)

ses_service_enable_account_sending ==
    \E st \in {enable_account_sending(Start)} :
       SesServiceCall("enable_account_sending", st, TRUE)

ses_service_disable_account_sending ==
    \E st \in {disable_account_sending(Start)} :
       SesServiceCall("disable_account_sending", st, FALSE)

ses_service_toggle_account_sending ==
    \E st \in {toggle_account_sending(Start)} :
       SesServiceCall("toggle_account_sending", st, st.enabled)

NextSesService ==
    \/ ses_service_is_account_sending_enabled
    \/ ses_service_enable_account_sending
    \/ ses_service_disable_account_sending
    \/ ses_service_toggle_account_sending

SpecSesService == InitSesService /\ [][NextSesService]_vars

(***************************************************************************)
(* Properties.                                                             *)
(***************************************************************************)
HandleOps == {"handle_ses_sending_quota", "handle_ses_reputation"}
Statuses == {THRESHOLD_CRITICAL, THRESHOLD_WARNING, THRESHOLD_OK}

Managed == ses_management_strategy = SES_MONITOR_STRATEGY_MANAGED
Alert == ses_management_strategy = SES_MONITOR_STRATEGY_ALERT

\* the remote writes and reads of the account flag among the calls of a cycle
IsWrite(c) == c.api = "update_account_sending_enabled"
IsRead(c) == c.api = "get_account_sending_enabled"
Writes(calls) == {i \in 1..Len(calls) : IsWrite(calls[i])}
EnableCalled(calls) == \E i \in Writes(calls) : calls[i].val = TRUE
DisableCalled(calls) == \E i \in Writes(calls) : calls[i].val = FALSE

\* some metric of the fetched data has at least one sample
HasData(metric_data) == \E i \in 1..Len(metric_data) : metric_data[i].Timestamps # <<>>

\* the labels of a list of classified metrics, and of the metrics an event or
\* message lists
Labels(ms) == [i \in 1..Len(ms) |-> ms[i][1]]
FieldLabels(fields) == [i \in 1..Len(fields) |-> fields[i].label]
NameOfLabel(label) == IF label = "Bounce Rate" THEN "bounce_rate" ELSE "complaint_rate"

\* the keys the details of an event have for the action, and the keys they have
\* for the metrics ms: a value, a threshold and a timestamp for each
ActionKeys == {"action", "action_message"}
DetailKeys(name) == {name, name \o "_threshold", name \o "_timestamp"}
ListedKeys(ms) == UNION {DetailKeys(NameOfLabel(ms[i][1])) : i \in 1..Len(ms)}
MetricKeys(details) == (DOMAIN details) \ ActionKeys

\* the dedup key of an event class
ClassKey(class_type) == ServiceName \o "/" \o class_type

\* q2 is q1 with exactly one entry appended
AppendsOne(q1, q2) == Len(q2) = Len(q1) + 1 /\ SubSeq(q2, 1, Len(q1)) = q1
Newest(q) == q[Len(q)]

\* C1: under MANAGED, after a reputation cycle in which some metric had data, the
\* account's sending flag is disabled if the cycle's status was CRITICAL and
\* enabled if it was WARNING or OK, whatever the flag was before the cycle and
\* whatever the notification flags are.
C1_ManagedFlagFollowsStatus ==
    (/\ last.op = "handle_ses_reputation"
     /\ last.result = "pending"
     /\ Managed
     /\ HasData(last.metric_data))
    => /\ last.status \in Statuses
       /\ (last.status = THRESHOLD_CRITICAL => ~sending_enabled)
       /\ (last.status \in {THRESHOLD_WARNING, THRESHOLD_OK} => sending_enabled)

\* C1 witness: a MANAGED cycle with CRITICAL status has just disabled sending
C1_Witness ==
    /\ last.op = "handle_ses_reputation"
    /\ Managed
    /\ HasData(last.metric_data)
    /\ last.status = THRESHOLD_CRITICAL
    /\ DisableCalled(last.calls)
    /\ ~sending_enabled

\* C2: under ALERT no quota cycle and no reputation cycle, in any status, calls
\* enable_sending or disable_sending, and every cycle leaves the account's
\* sending flag as it was.
C2_AlertNeverWrites ==
    [][(Alert /\ last'.op \in HandleOps)
       => (Writes(last'.calls) = {} /\ sending_enabled' = sending_enabled)]_vars

\* C2 witness: an ALERT cycle with CRITICAL reputation left sending enabled
C2_Witness ==
    /\ Alert
    /\ last.op = "handle_ses_reputation"
    /\ last.status = THRESHOLD_CRITICAL
    /\ sending_enabled

\* C3: every enable_sending or disable_sending call of a cycle is preceded, in
\* that cycle, by an is_sending_enabled read, and is made only when that read
\* shows the flag differs from the target.
C3_ReadBeforeWrite ==
    last.op \in HandleOps
    => \A i \in Writes(last.calls) :
          \E j \in 1..(i - 1) : IsRead(last.calls[j]) /\ last.calls[j].val # last.calls[i].val

\* C4: the quota check is CRITICAL iff utilization >= critical percent, WARNING
\* iff it is not CRITICAL and utilization >= warning percent, OK otherwise, where
\* utilization = (volume / max_volume) * 100 is not clamped at 100; both
\* boundaries are inclusive.
C4_QuotaClassification ==
    (last.op = "handle_ses_sending_quota" /\ last.result = "pending")
    => LET volume == last.send_quota.SentLast24Hours
           max_volume == last.send_quota.Max24HourSend
           u == last.utilization_percent
           critical == volume * 100 >= SES_SENDING_QUOTA_CRITICAL_PERCENT * max_volume
           warning == volume * 100 >= SES_SENDING_QUOTA_WARNING_PERCENT * max_volume
       IN /\ u = GetUtilizationPercentage(volume, max_volume)
          /\ volume > max_volume => DoubleCompare(u, 100) > 0
          /\ last.status \in Statuses
          /\ last.status = THRESHOLD_CRITICAL <=> critical
          /\ last.status = THRESHOLD_WARNING <=> (~critical /\ warning)
          /\ last.status = THRESHOLD_OK <=> (~critical /\ ~warning)

\* C4 witness: a utilization equal to the critical percent was classified
C4_Witness ==
    /\ last.op = "handle_ses_sending_quota"
    /\ last.status = THRESHOLD_CRITICAL
    /\ last.send_quota.SentLast24Hours * 100 =
           SES_SENDING_QUOTA_CRITICAL_PERCENT * last.send_quota.Max24HourSend
    /\ DoubleCompare(last.utilization_percent, SES_SENDING_QUOTA_CRITICAL_PERCENT) = 0

\* C5: with both quota notification flags enabled, one quota cycle appends exactly
\* one event to the paging queue (a TRIGGER when the status is CRITICAL, a RESOLVE
\* when it is WARNING or OK) and appends to the chat queue exactly one message
\* carrying the cycle's status when that is CRITICAL or WARNING, nothing when OK.
C5_QuotaNotifications ==
    [][(/\ last'.op = "handle_ses_sending_quota"
        /\ last'.status \in Statuses
        /\ notify_config.notify_pager_duty_on_ses_sending_quota
        /\ notify_config.notify_slack_on_ses_sending_quota)
       => /\ AppendsOne(events, events')
          /\ Newest(events').dedup_key = ClassKey(SES_ACCOUNT_SENDING_QUOTA_CLASS_TYPE)
          /\ Newest(events').event_action =
                 IF last'.status = THRESHOLD_CRITICAL THEN "trigger" ELSE "resolve"
          /\ IF last'.status = THRESHOLD_OK
             THEN messages' = messages
             ELSE /\ AppendsOne(messages, messages')
                  /\ Newest(messages').Service = "SES Account Sending"
                  /\ Newest(messages').Status = last'.status]_vars

\* C5 witness: a WARNING quota cycle queued a RESOLVE and a WARNING message
C5_Witness ==
    /\ last.op = "handle_ses_sending_quota"
    /\ last.status = THRESHOLD_WARNING
    /\ events # <<>>
    /\ Newest(events).event_action = "resolve"
    /\ messages # <<>>
    /\ Newest(messages).Status = THRESHOLD_WARNING

\* C6: a CRITICAL reputation cycle, with both reputation notification flags
\* enabled, enqueues exactly one paging TRIGGER and exactly one chat message of
\* status CRITICAL, each listing the danger metrics (the critical metrics followed
\* by the warning metrics, and no ok metric); their action is "disable" under
\* MANAGED and "alert" under ALERT.
C6_CriticalReputation ==
    [][(/\ last'.op = "handle_ses_reputation"
        /\ last'.status = THRESHOLD_CRITICAL
        /\ notify_config.notify_pager_duty_on_ses_reputation
        /\ notify_config.notify_slack_on_ses_reputation)
       => LET danger == last'.metrics.critical \o last'.metrics.warning
              action == IF Managed THEN ACTION_DISABLE ELSE ACTION_ALERT
              event == Newest(events')
              message == Newest(messages')
          IN /\ AppendsOne(events, events')
             /\ event.event_action = "trigger"
             /\ event.dedup_key = ClassKey(SES_ACCOUNT_REPUTATION_CLASS_TYPE)
             /\ event.payload.custom_details.action = action
             /\ MetricKeys(event.payload.custom_details) = ListedKeys(danger)
             /\ AppendsOne(messages, messages')
             /\ message.Status = THRESHOLD_CRITICAL
             /\ message.Action = Upper(action)
             /\ FieldLabels(message.metrics) = Labels(danger)
             /\ \A i \in 1..Len(last'.metrics.ok) :
                   \A j \in 1..Len(message.metrics) :
                      message.metrics[j].label # last'.metrics.ok[i][1]]_vars

\* C6 witness: a MANAGED cycle with one critical and one warning metric queued a
\* trigger and a message that list both, critical first
C6_Witness ==
    /\ last.op = "handle_ses_reputation"
    /\ last.status = THRESHOLD_CRITICAL
    /\ Managed
    /\ Len(last.metrics.critical) = 1
    /\ Len(last.metrics.warning) = 1
    /\ events # <<>>
    /\ Newest(events).event_action = "trigger"
    /\ Newest(events).payload.custom_details.action = ACTION_DISABLE
    /\ MetricKeys(Newest(events).payload.custom_details) =
           DetailKeys("bounce_rate") \cup DetailKeys("complaint_rate")
    /\ messages # <<>>
    /\ Newest(messages).Action = "DISABLE"
    /\ FieldLabels(Newest(messages).metrics) =
           <<last.metrics.critical[1][1], last.metrics.warning[1][1]>>

\* C7: a WARNING reputation cycle enqueues no paging event; when chat on
\* reputation is enabled it enqueues exactly one chat message of status WARNING
\* that lists only the warning metrics, whose action is "enable" iff this cycle
\* called enable_sending (strategy MANAGED and sending was disabled) and "alert"
\* otherwise.
C7_WarningReputation ==
    [][(last'.op = "handle_ses_reputation" /\ last'.status = THRESHOLD_WARNING)
       => /\ events' = events
          /\ EnableCalled(last'.calls) <=> (Managed /\ ~sending_enabled)
          /\ notify_config.notify_slack_on_ses_reputation
             => /\ AppendsOne(messages, messages')
                /\ Newest(messages').Status = THRESHOLD_WARNING
                /\ FieldLabels(Newest(messages').metrics) = Labels(last'.metrics.warning)
                /\ Newest(messages').Action =
                       IF EnableCalled(last'.calls) THEN "ENABLE" ELSE "ALERT"]_vars

\* C7 witness: a MANAGED WARNING cycle re-enabled sending and queued an ENABLE
\* message, with an ok metric present that the message does not list
C7_Witness ==
    /\ last.op = "handle_ses_reputation"
    /\ last.status = THRESHOLD_WARNING
    /\ EnableCalled(last.calls)
    /\ last.metrics.ok # <<>>
    /\ messages # <<>>
    /\ Newest(messages).Status = THRESHOLD_WARNING
    /\ Newest(messages).Action = "ENABLE"
    /\ Len(Newest(messages).metrics) = 1

\* C8: an OK reputation cycle enqueues no paging event; it enqueues a chat message
\* iff an enable just occurred (strategy MANAGED and sending was disabled when
\* read) and chat on reputation is enabled; in every other OK cycle both queues
\* are left exactly as they were.
C8_OkReputation ==
    [][(last'.op = "handle_ses_reputation" /\ last'.status = THRESHOLD_OK)
       => /\ events' = events
          /\ EnableCalled(last'.calls) <=> (Managed /\ ~sending_enabled)
          /\ IF EnableCalled(last'.calls) /\ notify_config.notify_slack_on_ses_reputation
             THEN AppendsOne(messages, messages')
             ELSE messages' = messages]_vars

\* C8 witness: a MANAGED OK cycle re-enabled sending and queued the message
C8_Witness ==
    /\ last.op = "handle_ses_reputation"
    /\ last.status = THRESHOLD_OK
    /\ EnableCalled(last.calls)
    /\ sending_enabled
    /\ messages # <<>>
    /\ Newest(messages).Service = "SES Account Reputation"
    /\ Newest(messages).Action = "ENABLE"

\* the value of the most recent sample of a series: the first sample carrying the
\* greatest timestamp
IsCurrent(metric, i) ==
    /\ \A j \in 1..Len(metric.Timestamps) : metric.Timestamps[j] <= metric.Timestamps[i]
    /\ \A j \in 1..(i - 1) : metric.Timestamps[j] < metric.Timestamps[i]

\* the bucket and threshold tag the strict order critical, warning, ok gives
BucketOf(id, value) ==
    IF value >= SES_THRESHOLDS[THRESHOLD_CRITICAL][id] THEN "critical"
    ELSE IF value >= SES_THRESHOLDS[THRESHOLD_WARNING][id] THEN "warning"
    ELSE "ok"
TagOf(id, value) ==
    IF value >= SES_THRESHOLDS[THRESHOLD_CRITICAL][id]
    THEN SES_THRESHOLDS[THRESHOLD_CRITICAL][id]
    ELSE SES_THRESHOLDS[THRESHOLD_WARNING][id]

InBucket(bucket, label) == \E k \in 1..Len(bucket) : bucket[k][1] = label

\* C9: the reputation classifier places each metric that has at least one sample
\* in exactly one bucket by the strict order (critical if value >= critical
\* threshold, else warning if value >= warning threshold, else ok), tagged with
\* the critical threshold in the critical bucket and with the warning threshold in
\* the other two; a metric with an empty series is in no bucket; the bucket sizes
\* sum to the number of metrics that have samples.
C9_Classifier ==
    last.op = "build_ses_account_reputation_metrics"
    => LET data == last.metric_data
           buckets == last.metrics
           sampled == {i \in 1..Len(data) : data[i].Timestamps # <<>>}
       IN /\ \A i \in 1..Len(data) :
                IF i \in sampled
                THEN \E s \in 1..Len(data[i].Timestamps) :
                        /\ IsCurrent(data[i], s)
                        /\ LET value == data[i].Values[s]
                               entry == <<data[i].Label, value, TagOf(data[i].Id, value),
                                          data[i].Timestamps[s]>>
                               home == BucketOf(data[i].Id, value)
                           IN \A b \in {"critical", "warning", "ok"} :
                                 IF b = home
                                 THEN \E k \in 1..Len(buckets[b]) : buckets[b][k] = entry
                                 ELSE ~InBucket(buckets[b], data[i].Label)
                ELSE \A b \in {"critical", "warning", "ok"} :
                        ~InBucket(buckets[b], data[i].Label)
          /\ Len(buckets.critical) + Len(buckets.warning) + Len(buckets.ok)
                 = Cardinality(sampled)

\* C9 witness: one metric without samples, the other classified by a sample that
\* is the most recent one but not the last of its series, at the warning boundary
C9_Witness ==
    /\ last.op = "build_ses_account_reputation_metrics"
    /\ \E i, j \in 1..Len(last.metric_data) :
          /\ last.metric_data[i].Timestamps = <<>>
          /\ Len(last.metric_data[j].Timestamps) = 2
          /\ last.metric_data[j].Timestamps[1] > last.metric_data[j].Timestamps[2]
          /\ last.metric_data[j].Values[1] = SES_THRESHOLDS[THRESHOLD_WARNING][last.metric_data[j].Id]
          /\ last.metric_data[j].Values[2] >= SES_THRESHOLDS[THRESHOLD_CRITICAL][last.metric_data[j].Id]
    /\ Len(last.metrics.warning) = 1
    /\ last.metrics.critical = <<>>
    /\ last.metrics.ok = <<>>

\* C10: when the monitoring flag of a signal is off, or the strategy is any value
\* other than ALERT or MANAGED, the cycle for that signal returns an empty result
\* with no side effect and no remote call: nothing is fetched, classified,
\* enforced or enqueued.
C10_SkippedCycle ==
    [][(/\ last'.op \in HandleOps
        /\ \/ ses_management_strategy
                  \notin {SES_MONITOR_STRATEGY_ALERT, SES_MONITOR_STRATEGY_MANAGED}
           \/ last'.op = "handle_ses_sending_quota" /\ ~monitor_ses_sending_quota
           \/ last'.op = "handle_ses_reputation" /\ ~monitor_ses_reputation)
       => /\ last'.result = "{}"
          /\ last'.calls = <<>>
          /\ last'.status = None
          /\ last'.metrics = EmptyMetrics
          /\ UNCHANGED <<sending_enabled, events, messages, pager_duty_responses,
                         slack_responses, config_vars>>]_vars

\* C10 witness: with a strategy that is neither ALERT nor MANAGED and both
\* monitoring flags on, a reputation cycle returned empty while sending was
\* disabled
C10_Witness ==
    /\ ses_management_strategy
           \notin {SES_MONITOR_STRATEGY_ALERT, SES_MONITOR_STRATEGY_MANAGED}
    /\ monitor_ses_reputation
    /\ monitor_ses_sending_quota
    /\ last.op = "handle_ses_reputation"
    /\ last.result = "{}"
    /\ ~sending_enabled

\* the handler a quota cycle of the recorded status runs, under the flags nc
QuotaRun(st, nc, rec) ==
    CASE rec.status = THRESHOLD_CRITICAL ->
            handle_ses_sending_quota_critical(
                st, nc, rec.utilization_percent, SES_SENDING_QUOTA_CRITICAL_PERCENT,
                rec.send_quota.SentLast24Hours, rec.send_quota.Max24HourSend)
      [] rec.status = THRESHOLD_WARNING ->
            handle_ses_sending_quota_warning(
                st, nc, rec.utilization_percent, SES_SENDING_QUOTA_WARNING_PERCENT,
                rec.send_quota.SentLast24Hours, rec.send_quota.Max24HourSend)
      [] OTHER -> handle_ses_sending_quota_ok(st, nc)

\* the handler a reputation cycle of the recorded status runs, under the flags nc
ReputationRun(st, nc, strategy, rec) ==
    CASE rec.status = THRESHOLD_CRITICAL ->
            handle_ses_reputation_critical(st, nc, strategy, rec.metrics)
      [] rec.status = THRESHOLD_WARNING ->
            handle_ses_reputation_warning(st, nc, strategy, rec.metrics)
      [] OTHER -> handle_ses_reputation_ok(st, nc, strategy, rec.metrics)

Flip(nc, flag) == [nc EXCEPT ![flag] = ~@]

IsQuotaEvent(e) == e.dedup_key = ClassKey(SES_ACCOUNT_SENDING_QUOTA_CLASS_TYPE)
IsReputationEvent(e) == e.dedup_key = ClassKey(SES_ACCOUNT_REPUTATION_CLASS_TYPE)
IsQuotaMessage(m) == m.Service = "SES Account Sending"
IsReputationMessage(m) == m.Service = "SES Account Reputation"

\* C11: for each (backend, signal) pair, when its notification flag is off no
\* cycle in any status appends an entry for that signal to that backend's queue,
\* and the flag has no effect on what is appended to the other backend's queue.
C11_FlagsGateTheirQueueOnly ==
    [][last'.op \in HandleOps
       => LET quota == last'.op = "handle_ses_sending_quota"
              pd_flag == IF quota THEN "notify_pager_duty_on_ses_sending_quota"
                         ELSE "notify_pager_duty_on_ses_reputation"
              sl_flag == IF quota THEN "notify_slack_on_ses_sending_quota"
                         ELSE "notify_slack_on_ses_reputation"
              run(nc) == IF quota THEN QuotaRun(Start, nc, last')
                         ELSE ReputationRun(Start, nc, ses_management_strategy, last')
          IN /\ ~notify_config[pd_flag] => events' = events
             /\ ~notify_config[sl_flag] => messages' = messages
             /\ \A i \in 1..Len(events') :
                   /\ IsQuotaEvent(events'[i])
                      => notify_config.notify_pager_duty_on_ses_sending_quota
                   /\ IsReputationEvent(events'[i])
                      => notify_config.notify_pager_duty_on_ses_reputation
             /\ \A i \in 1..Len(messages') :
                   /\ IsQuotaMessage(messages'[i])
                      => notify_config.notify_slack_on_ses_sending_quota
                   /\ IsReputationMessage(messages'[i])
                      => notify_config.notify_slack_on_ses_reputation
             /\ last'.status \in Statuses
                => /\ run(Flip(notify_config, pd_flag)).messages = messages'
                   /\ run(Flip(notify_config, sl_flag)).events = events']_vars

\* C11 witness: a CRITICAL quota cycle with paging on quota off and chat on quota
\* on queued the chat message and no event
C11_Witness ==
    /\ last.op = "handle_ses_sending_quota"
    /\ last.status = THRESHOLD_CRITICAL
    /\ ~notify_config.notify_pager_duty_on_ses_sending_quota
    /\ notify_config.notify_slack_on_ses_sending_quota
    /\ events = <<>>
    /\ messages # <<>>
    /\ IsQuotaMessage(Newest(messages))

PagerDutySendOp == "pager_duty_service.send_notifications"
SlackSendOp == "slack_service.send_notifications"

\* the calls of a send that went to one backend
PostsTo(posts, backend) == SelectSeq(posts, LAMBDA p : p.backend = backend)

\* the channels the chat transport is configured with
ConfiguredChannels == slack_channels.items

\* C12: a live paging send makes exactly one outbound call per queued event, in
\* the order the events were enqueued (no dedup, no reordering), returns one
\* (identifier, outcome) pair per event in that same order, and leaves the paging
\* queue empty.
C12_LivePagingSend ==
    [][(/\ last'.op = PagerDutySendOp
        /\ ~last'.dry_run
        /\ ~pager_duty_dry_run)
       => /\ Len(last'.posts) = Len(events)
          /\ \A i \in 1..Len(events) :
                last'.posts[i] = [backend |-> "pager_duty", payload |-> events[i]]
          /\ last'.returned.shape = "pair"
          /\ Len(last'.returned.responses) = Len(events)
          /\ \A i \in 1..Len(events) :
                /\ last'.returned.responses[i][1] =
                       events[i].event_action \o "::" \o events[i].dedup_key
                /\ last'.returned.responses[i][2].status_code \in Nat
          /\ pager_duty_responses' = last'.returned.responses
          /\ events' = <<>>]_vars

\* C13: a live chat send makes exactly one outbound call per (queued message,
\* configured channel) pair, |messages| * |channels| calls in total, ordered by
\* message in queue order and within a message by channel-list order, returns one
\* (channel, outcome) pair per call in that order, and leaves the chat queue empty.
C13_LiveChatSend ==
    [][(/\ last'.op = SlackSendOp
        /\ ~last'.dry_run
        /\ ~slack_dry_run)
       => LET n == Len(ConfiguredChannels)
          IN /\ Len(last'.posts) = Len(messages) * n
             /\ last'.returned.shape = "pair"
             /\ Len(last'.returned.responses) = Len(messages) * n
             /\ \A m \in 1..Len(messages) : \A c \in 1..n :
                   /\ last'.posts[(m - 1) * n + c].backend = "slack"
                   /\ last'.posts[(m - 1) * n + c].payload = messages[m]
                   /\ last'.returned.responses[(m - 1) * n + c][1] = ConfiguredChannels[c]
                   /\ last'.returned.responses[(m - 1) * n + c][2].status_code \in Nat
             /\ slack_responses' = last'.returned.responses
             /\ messages' = <<>>]_vars

\* C14: when dry run is in effect for a backend, whether by the explicit dry_run
\* argument of send or by the transport's configured default, send makes zero
\* outbound calls whatever the queue holds, and still drains that queue to empty.
C14_DryRunMakesNoCall ==
    [][/\ (last'.op = PagerDutySendOp /\ (last'.dry_run \/ pager_duty_dry_run))
          => (last'.posts = <<>> /\ events' = <<>>)
       /\ (last'.op = SlackSendOp /\ (last'.dry_run \/ slack_dry_run))
          => (last'.posts = <<>> /\ messages' = <<>>)
       /\ (last'.op = "send_notifications" /\ pager_duty_dry_run)
          => (PostsTo(last'.posts, "pager_duty") = <<>> /\ events' = <<>>)
       /\ (last'.op = "send_notifications" /\ slack_dry_run)
          => (PostsTo(last'.posts, "slack") = <<>> /\ messages' = <<>>)]_vars

\* a status code in the range that counts as a failure
ErrorStatus(status_code) == 400 <= status_code /\ status_code <= 500

\* the positions of the error statuses among live outcomes
ErrorsIn(responses) == {i \in 1..Len(responses) : ErrorStatus(responses[i][2].status_code)}

\* the positions of the outcomes of a backend that qualify as failures: none
\* when the backend is in dry run
Qualifying(responses, dry_run) == IF dry_run THEN {} ELSE ErrorsIn(responses)

\* C15: when dry run is in effect for a backend (explicit argument or transport
\* default), send on either backend returns the pair (sent = False, results),
\* where results holds one placeholder outcome per queued event (per message and
\* channel for chat), each pairing an identifier with the echoed event.
C15_DryRunReturnsUnsentPair ==
    [][/\ (last'.op = PagerDutySendOp /\ (last'.dry_run \/ pager_duty_dry_run))
          => /\ last'.returned.shape = "pair"
             /\ last'.returned.send_status = FALSE
             /\ Len(last'.returned.responses) = Len(events)
             /\ \A i \in 1..Len(events) : last'.returned.responses[i][2] = events[i]
       /\ (last'.op = SlackSendOp /\ (last'.dry_run \/ slack_dry_run))
          => /\ last'.returned.shape = "pair"
             /\ last'.returned.send_status = FALSE
             /\ Len(last'.returned.responses) = Len(messages) * Len(ConfiguredChannels)]_vars

\* C16: the explicit dry_run argument of send takes precedence over the
\* transport's configured dry-run default in both directions: explicit
\* dry_run=True on a live transport performs a dry run (no call is made), and
\* explicit dry_run=False on a transport configured for dry run performs live
\* delivery (a call is made for the head of a queue that is not empty).
C16_ArgumentTakesPrecedence ==
    [][(last'.op \in {PagerDutySendOp, SlackSendOp} /\ last'.dry_run_given)
       => LET paging == last'.op = PagerDutySendOp
              queued == IF paging THEN Len(events) ELSE Len(messages)
              configured == IF paging THEN pager_duty_dry_run ELSE slack_dry_run
          IN /\ (last'.dry_run /\ ~configured) => last'.posts = <<>>
             /\ (~last'.dry_run /\ configured /\ queued > 0) => last'.posts # <<>>]_vars

\* C17: send_notifications(raise_on_errors=True) raises NotificationFailure iff
\* some delivery outcome of a backend that is not in dry run has a status code s
\* with 400 <= s <= 500 (so 400 and 500 raise, 399 and 501 do not); the outcomes
\* of a backend in dry run are never inspected, while the other backend's still
\* are.
C17_RaisesOnErrorStatus ==
    [][(last'.op = "send_notifications" /\ last'.raise_on_errors)
       => (last'.raised = "NotificationFailure"
           <=> \/ Qualifying(pager_duty_responses', pager_duty_dry_run) # {}
               \/ Qualifying(slack_responses', slack_dry_run) # {})]_vars

\* C18: when several delivery outcomes qualify as failures,
\* send_notifications(raise_on_errors=True) raises a single NotificationFailure
\* that names the first qualifying outcome in the order: paging outcomes in
\* delivery order, then chat outcomes in delivery order; a paging failure is
\* reported in preference to any chat failure.
C18_FirstFailureNamed ==
    [][(/\ last'.op = "send_notifications"
        /\ last'.raise_on_errors
        /\ Cardinality(Qualifying(pager_duty_responses', pager_duty_dry_run))
           + Cardinality(Qualifying(slack_responses', slack_dry_run)) >= 2)
       => LET pd_bad == Qualifying(pager_duty_responses', pager_duty_dry_run)
              sl_bad == Qualifying(slack_responses', slack_dry_run)
          IN /\ last'.raised = "NotificationFailure"
             /\ IF pd_bad # {}
                THEN \E i \in pd_bad :
                        /\ \A j \in pd_bad : i <= j
                        /\ last'.failure =
                               <<"NotificationFailure", "PagerDuty", pager_duty_responses'[i][1]>>
                ELSE \E i \in sl_bad :
                        /\ \A j \in sl_bad : i <= j
                        /\ last'.failure =
                               <<"NotificationFailure", "Slack", slack_responses'[i][1]>>]_vars

\* C19: with raise_on_errors true, delivery to both backends is attempted for
\* every queued item before any NotificationFailure is raised: when one backend's
\* outcome is an error status, the other backend's queue has already been drained
\* and its outcomes recorded in that backend's responses.
C19_BothBackendsSentBeforeRaise ==
    [][(/\ last'.op = "send_notifications"
        /\ last'.raise_on_errors
        /\ \/ Qualifying(pager_duty_responses', pager_duty_dry_run) # {}
           \/ Qualifying(slack_responses', slack_dry_run) # {})
       => /\ events' = <<>>
          /\ messages' = <<>>
          /\ Len(pager_duty_responses') = Len(events)
          /\ Len(slack_responses') = Len(messages) * Len(ConfiguredChannels)
          /\ ~pager_duty_dry_run
             => Len(PostsTo(last'.posts, "pager_duty")) = Len(events)
          /\ ~slack_dry_run
             => Len(PostsTo(last'.posts, "slack")) = Len(messages) * Len(ConfiguredChannels)]_vars

\* C20: with raise_on_errors false, send_notifications never fails because of a
\* delivery outcome: it returns one outcome for every queued paging event and
\* every chat (message, channel) pair, whether that outcome is a success status,
\* an error status, or a transport error such as a network failure.
C20_NeverFailsWithoutRaiseOnErrors ==
    [][(last'.op = "send_notifications" /\ ~last'.raise_on_errors)
       => /\ last'.raised = None
          /\ last'.returned.shape = "dict"
          /\ Len(last'.returned.pager_duty) = Len(events)
          /\ Len(last'.returned.slack) = Len(messages) * Len(ConfiguredChannels)]_vars

\* q1 is the head of q2: q2 is q1 with zero or more entries appended
Accumulates(q1, q2) == Len(q2) >= Len(q1) /\ SubSeq(q2, 1, Len(q1)) = q1

\* C21: the outcomes send_notifications returns are exactly those of the events
\* enqueued by handle_* calls since the previous send_notifications: events from
\* successive handle_* calls accumulate in the queues, a send returns one outcome
\* per queued event (per message and channel for chat) and empties the queues, so
\* outcomes of an earlier send are never repeated in a later result.
C21_SendReturnsWhatWasQueuedSince ==
    [][/\ last'.op \in HandleOps
          => /\ Accumulates(events, events')
             /\ Accumulates(messages, messages')
             /\ UNCHANGED <<pager_duty_responses, slack_responses>>
       /\ last'.op = "send_notifications"
          => LET n == Len(ConfiguredChannels)
             IN /\ events' = <<>>
                /\ messages' = <<>>
                /\ Len(pager_duty_responses') = Len(events)
                /\ \A i \in 1..Len(events) :
                      pager_duty_responses'[i][1] =
                          events[i].event_action \o "::" \o events[i].dedup_key
                /\ Len(slack_responses') = Len(messages) * n
                /\ \A m \in 1..Len(messages) : \A c \in 1..n :
                      slack_responses'[(m - 1) * n + c][1] = ConfiguredChannels[c]
                /\ last'.raised = None
                   => last'.returned = [shape |-> "dict", slack |-> slack_responses',
                                        pager_duty |-> pager_duty_responses']]_vars

\* the payload for message m of the queue and channel c: the message with a
\* channel field added
ChannelPayload(msgs, i) ==
    LET n == Len(ConfiguredChannels)
    IN build_message_with_channels(msgs[((i - 1) \div n) + 1],
                                   ConfiguredChannels)[((i - 1) % n) + 1]

\* C22: every chat payload sent for a channel (live send) or echoed (dry run)
\* contains a channel field equal to that channel and is otherwise identical to
\* the queued message.
C22_EveryChatPayloadCarriesItsChannel ==
    [][last'.op = SlackSendOp
       => /\ \A i \in 1..Len(last'.posts) :
                last'.posts[i].payload = ChannelPayload(messages, i)
          /\ last'.returned.shape = "list"
             => \A i \in 1..Len(last'.returned.responses) :
                   last'.returned.responses[i] = ChannelPayload(messages, i)]_vars

QuotaEventOps == {"enqueue_ses_account_sending_quota_trigger_event",
                  "enqueue_ses_account_sending_quota_resolve_event"}
ReputationEventOps == {"enqueue_ses_account_reputation_trigger_event",
                       "enqueue_ses_account_reputation_resolve_event"}
TriggerEventOps == {"enqueue_ses_account_sending_quota_trigger_event",
                    "enqueue_ses_account_reputation_trigger_event"}

\* C23: the TRIGGER and the RESOLVE of the same event class carry the same
\* dedup_key, "{service_name}/{event_class}", for the quota class and the
\* reputation class alike, and the keys of the two classes differ.
C23_DedupKeyPerClass ==
    LET quota_key == ServiceName \o "/" \o "ses_account_sending_quota"
        reputation_key == ServiceName \o "/" \o "ses_account_reputation"
    IN /\ quota_key # reputation_key
       /\ last.op \in QuotaEventOps => Newest(events).dedup_key = quota_key
       /\ last.op \in ReputationEventOps => Newest(events).dedup_key = reputation_key
       /\ last.op \in QuotaEventOps \cup ReputationEventOps
          => Newest(events).event_action =
                 IF last.op \in TriggerEventOps THEN "trigger" ELSE "resolve"

\* C23 witness: a reputation TRIGGER and then a reputation RESOLVE were queued,
\* with one dedup_key
C23_Witness ==
    /\ last.op = "enqueue_ses_account_reputation_resolve_event"
    /\ Len(events) = 2
    /\ events[1].event_action = "trigger"
    /\ events[2].event_action = "resolve"
    /\ events[1].dedup_key = events[2].dedup_key
    /\ events[1].payload.class = SES_ACCOUNT_REPUTATION_CLASS_TYPE

\* C25: building or enqueueing a reputation trigger with an empty metrics list
\* fails with MissingRequiredField before anything is appended to the queue.
C25_EmptyMetricsRejected ==
    [][(/\ last'.op = "enqueue_ses_account_reputation_trigger_event"
        /\ last'.args[1] = <<>>)
       => /\ last'.result = "MissingRequiredField"
          /\ events' = events]_vars

\* C24: when max_volume is 0 the quota check fails with InvalidQuotaConfiguration,
\* and the failure is confined to this cycle's quota check: no status is
\* classified and nothing is appended to either queue.
C24_ZeroQuotaIsInvalidQuotaConfiguration ==
    [][(/\ last'.op = "handle_ses_sending_quota"
        /\ last'.send_quota.Max24HourSend = 0)
       => /\ last'.result = "InvalidQuotaConfiguration"
          /\ last'.status = None
          /\ events' = events
          /\ messages' = messages]_vars

\* C26: the monitor never enqueues a paging RESOLVE of the reputation class:
\* after a reputation TRIGGER, no later WARNING or OK reputation cycle enqueues
\* the event that would close it.
C26_NoReputationResolve ==
    [][/\ \A i \in 1..Len(events') :
             ~(IsReputationEvent(events'[i]) /\ events'[i].event_action = "resolve")
       /\ (/\ last'.op = "handle_ses_reputation"
           /\ last'.status \in {THRESHOLD_WARNING, THRESHOLD_OK})
          => events' = events]_vars

\* C26 witness: a reputation TRIGGER was sent, and a later reputation cycle with
\* status OK has run and left the paging queue empty
C26_Witness ==
    /\ last.op = "handle_ses_reputation"
    /\ last.status = THRESHOLD_OK
    /\ \E i \in 1..Len(pager_duty_responses) :
          pager_duty_responses[i][1] =
              "trigger::" \o ClassKey(SES_ACCOUNT_REPUTATION_CLASS_TYPE)
    /\ events = <<>>

SendOps == {PagerDutySendOp, SlackSendOp, "send_notifications"}

\* q2 is what remains of q1 after `taken` entries were taken from its head
Behind(q1, taken, q2) == q2 = SubSeq(q1, taken + 1, Len(q1))

\* C27: across any sequence of sends, each event is handed to the transport at
\* most once per destination: the calls of a send are for the entries at the head
\* of the queue, in order, and every entry a call was made for is off the queue
\* after the send, the one whose call raised included, so that no later send
\* makes a call for it; the entries behind one whose call raised stay queued.
C27_HandedOverAtMostOnce ==
    [][last'.op \in SendOps
       => LET pd == PostsTo(last'.posts, "pager_duty")
              sl == PostsTo(last'.posts, "slack")
              n == Len(ConfiguredChannels)
              popped == (Len(sl) + n - 1) \div n
          IN /\ \A i \in 1..Len(pd) : pd[i].payload = events[i]
             /\ \E taken \in Len(pd)..Len(events) : Behind(events, taken, events')
             /\ \A i \in 1..Len(sl) : sl[i].payload = messages[((i - 1) \div n) + 1]
             /\ \E taken \in popped..Len(messages) : Behind(messages, taken, messages')
             /\ last'.raised \in {"ConnectionError", "ValueError"}
                => IF sl = <<>>
                   THEN Behind(events, Len(pd), events')
                   ELSE Behind(messages, popped, messages')]_vars

\* C27 witness: the call for the first of two queued events raised; one call was
\* made and the second event is still queued
C27_Witness ==
    /\ last.op = PagerDutySendOp
    /\ last.raised = "ConnectionError"
    /\ Len(last.posts) = 1
    /\ Len(events) = 1

\* the colour the chat attachment of a status has
StatusColour(status) ==
    CASE status = THRESHOLD_CRITICAL -> "danger"
      [] status = THRESHOLD_WARNING -> "warning"
      [] status = THRESHOLD_OK -> "ok"

\* C28: every chat message carries the status of the cycle that produced it, in
\* its Status field and in its colour (danger, warning, ok), the message of an OK
\* reputation cycle that re-enables sending included.
C28_MessageCarriesCycleStatus ==
    [][(/\ last'.op \in HandleOps
        /\ last'.status \in Statuses
        /\ AppendsOne(messages, messages'))
       => /\ Newest(messages').Status = last'.status
          /\ Newest(messages').color = StatusColour(last'.status)]_vars

\* C29: when no reputation metric has data, none of the three reputation handlers
\* runs: nothing is appended to either queue and no account-control call is made,
\* neither a read nor a write; under MANAGED a disabled account is not re-enabled.
C29_NoDataNoHandler ==
    [][(/\ last'.op = "handle_ses_reputation"
        /\ last'.result = "pending"
        /\ ~HasData(last'.metric_data))
       => /\ last'.status = None
          /\ events' = events
          /\ messages' = messages
          /\ sending_enabled' = sending_enabled
          /\ \A i \in 1..Len(last'.calls) :
                ~IsWrite(last'.calls[i]) /\ ~IsRead(last'.calls[i])]_vars

\* C29 witness: a MANAGED reputation cycle fetched metric data without a single
\* sample while sending was disabled, and sending is still disabled
C29_Witness ==
    /\ Managed
    /\ monitor_ses_reputation
    /\ last.op = "handle_ses_reputation"
    /\ last.result = "pending"
    /\ Len(last.metric_data) = 2
    /\ ~HasData(last.metric_data)
    /\ ~sending_enabled

\* the classified metric m is at or above its critical threshold
AtCritical(m) == m[2] >= SES_THRESHOLDS[THRESHOLD_CRITICAL][NameOfLabel(m[1])]

\* C30: every reputation TRIGGER and every CRITICAL reputation chat message lists
\* at least one metric, and at least one of the metrics it lists is at or above
\* its critical threshold; the trigger is never built from an empty list.
C30_CriticalListsACriticalMetric ==
    [][last'.op = "handle_ses_reputation"
       => /\ (/\ AppendsOne(events, events')
              /\ IsReputationEvent(Newest(events'))
              /\ Newest(events').event_action = "trigger")
             => LET listed == Newest(events').payload.custom_details
                IN /\ MetricKeys(listed) # {}
                   /\ \E i \in 1..Len(last'.metrics.critical) :
                         LET m == last'.metrics.critical[i]
                         IN /\ DetailKeys(NameOfLabel(m[1])) \subseteq DOMAIN listed
                            /\ listed[NameOfLabel(m[1])] = FormatPercent2(m[2])
                            /\ AtCritical(m)
          /\ (/\ AppendsOne(messages, messages')
              /\ IsReputationMessage(Newest(messages'))
              /\ Newest(messages').Status = THRESHOLD_CRITICAL)
             => LET listed == Newest(messages').metrics
                IN /\ Len(listed) >= 1
                   /\ \E j \in 1..Len(listed), i \in 1..Len(last'.metrics.critical) :
                         LET m == last'.metrics.critical[i]
                         IN /\ listed[j].label = m[1]
                            /\ listed[j].value = FormatPercent2(m[2])
                            /\ AtCritical(m)]_vars

\* C30 witness: a reputation cycle queued a trigger and a CRITICAL message that
\* list two metrics, the complaint rate at its critical threshold and the bounce
\* rate below its own
C30_Witness ==
    /\ last.op = "handle_ses_reputation"
    /\ last.status = THRESHOLD_CRITICAL
    /\ events # <<>>
    /\ IsReputationEvent(Newest(events))
    /\ Newest(events).event_action = "trigger"
    /\ MetricKeys(Newest(events).payload.custom_details) =
           DetailKeys("complaint_rate") \cup DetailKeys("bounce_rate")
    /\ messages # <<>>
    /\ Newest(messages).Status = THRESHOLD_CRITICAL
    /\ FieldLabels(Newest(messages).metrics) = <<"Complaint Rate", "Bounce Rate">>
    /\ ~AtCritical(last.metrics.warning[1])

====
